---- MODULE Spec2Model ----
(***************************************************************************)
(* The real-time room / presence layer of the chat backend:                *)
(*   - RoomService   (persisted rooms, Mongoose documents)                 *)
(*   - MessageService (persisted messages)                                 *)
(*   - SocketService (Room Membership Index, fan-out)                      *)
(*   - the socket handlers of setupSocketHandlers (Session Registry,       *)
(*     transport groups, one handler per inbound event)                    *)
(*   - the HTTP entry points that call into the same services.             *)
(*                                                                         *)
(* Handlers are async functions on one event loop: a handler runs without  *)
(* interruption up to its next awaited store call, and other handlers may  *)
(* run while it waits.  Every awaited store call is one step of the model: *)
(* the step performs the store operation and runs the handler's code up to *)
(* its next await.  Dates (joinedAt, lastSeen, lastActivity, timestamps)   *)
(* and display fields (username, email, description) carry no control flow *)
(* and are left out of the documents.                                      *)
(***************************************************************************)
EXTENDS Naturals, Sequences, FiniteSets, TLC

\* ------------------------------------------------------------------ universe

Users == {"alice", "bob", "carol"}
RoomNames == {"general", "vip"}
Sockets == {"s1", "s2"}

\* room / user / socket "undefined"
NoRoom == "-"
NoUser == "-"
NoSock == "-"

\* client events (disconnect included) and HTTP calls dispatched in one behaviour
\* of two connections
MaxEvents == 2
\* the same in one behaviour of a single connection
MaxEventsOne == 3
\* store calls that fail in one behaviour
MaxFailures == 1
\* number of RoomService calls in one sequential behaviour
MaxCalls == 4
\* largest maxParticipants a client asks for in POST /api/rooms
MaxCap == 2
\* handlers that may be suspended on a store call at the same time
MaxInFlight == 2

\* `maxParticipants: data.maxParticipants || 100`, `room.maxParticipants || 100`
DefaultMaxParticipants == 100

VARIABLES
  rooms,                \* Room collection: room name -> document
  messages,             \* Message collection, in insertion order
  connectedUsers,       \* Session Registry: the Map socket id -> {id, room}, in insertion order
  userRoomMemberships,  \* Room Membership Index: userId -> set of rooms (only users with an entry)
  adapterRooms,         \* transport groups: socket id -> rooms the socket has joined
  sockets,              \* socket id -> [status, user, cred, handled]
  tasks,                \* handlers suspended on an awaited store call
  events,               \* events and calls dispatched so far
  failures,             \* store calls that have failed so far
  emits,                \* what the last step emitted, in order
  done,                 \* the handler or call that returned in the last step
  lastCall,             \* sequential behaviours: the last RoomService call and its outcome
  isOnline              \* User collection: userId -> the persisted isOnline flag

vars == <<rooms, messages, connectedUsers, userRoomMemberships, adapterRooms,
          sockets, tasks, events, failures, emits, done, lastCall, isOnline>>

\* ------------------------------------------------------------------ Room documents

\* settings of the Room schema; a document holds the set of the enabled ones
SettingNames == {"allowFileSharing", "allowMentions", "messageHistory"}

NoRoomDoc ==
  [exists |-> FALSE, isActive |-> FALSE, participants |-> <<>>,
   maxParticipants |-> 0, v |-> 0, createdBy |-> NoUser, settings |-> {},
   roomType |-> ""]

Participant(u, role) == [userId |-> u, role |-> role, isActive |-> TRUE]

\* room.participants.findIndex(p => p.userId === userId), 0 for -1
FindIndex(parts, u) ==
  IF \E i \in 1..Len(parts) : parts[i].userId = u
  THEN CHOOSE i \in 1..Len(parts) :
         /\ parts[i].userId = u
         /\ \A j \in 1..(i - 1) : parts[j].userId # u
  ELSE 0

\* room.participants.filter(p => p.isActive).length
ActiveCount(parts) == Cardinality({i \in 1..Len(parts) : parts[i].isActive})

EntriesOf(parts, u) == {i \in 1..Len(parts) : parts[i].userId = u}

\* x || 100
OrDefault(n) == IF n = 0 THEN DefaultMaxParticipants ELSE n

\* Variant of RoomIsFull that lets one participant too many in (`>` for `>=`);
\* C10 must fail with it.
RoomIsFullOver(doc) == ActiveCount(doc.participants) > OrDefault(doc.maxParticipants)

\* the capacity test of joinRoom
RoomIsFull(doc) == ActiveCount(doc.participants) >= OrDefault(doc.maxParticipants)

\* data.roomType || 'public'; "" for a roomType that is not given
OrPublic(type) == IF type = "" THEN "public" ELSE type

\* Variant of NewRoom that enters the creator as an ordinary member; C31 must
\* fail with it.
NewRoomAsMember(u, cap) ==
  [exists |-> TRUE, isActive |-> TRUE, participants |-> <<Participant(u, "member")>>,
   maxParticipants |-> OrDefault(cap), v |-> 0, createdBy |-> u,
   settings |-> SettingNames, roomType |-> OrPublic("")]

\* new Room({...}) of createRoom; no caller in the model gives a roomType other
\* than 'public' (joinRoom passes 'public', the others pass none)
NewRoom(u, cap) ==
  [exists |-> TRUE, isActive |-> TRUE, participants |-> <<Participant(u, "admin")>>,
   maxParticipants |-> OrDefault(cap), v |-> 0, createdBy |-> u,
   settings |-> SettingNames, roomType |-> OrPublic("")]

\* What a RoomService method decides from the document it read.
\*   k = "create": joinRoom found no room and calls createRoom
\*   k = "throw" : the method throws err
\*   k = "null"  : the method returns null without writing
\*   k = "save"  : the method changed the document and calls room.save()
\* op, user, i, v describe the pending change of the loaded document.  err is
\* the message of the error thrown inside the method, which the method's catch
\* rethrows behind a prefix ("Failed to join room: ...").
Plan(k, err, op, u, i, v) ==
  [k |-> k, err |-> err, op |-> op, user |-> u, i |-> i, v |-> v]

NoPlan == Plan("none", "", "", NoUser, 0, 0)

\* Variant of JoinRoomPlan that never looks for an existing participant and
\* always pushes; C4 must fail with it.
JoinRoomPlanPush(doc, u) ==
  IF ~doc.exists THEN Plan("create", "", "", u, 0, 0)
  ELSE IF ~doc.isActive THEN Plan("throw", "Room is not active", "", u, 0, 0)
  ELSE IF RoomIsFull(doc) THEN Plan("throw", "Room is full", "", u, 0, 0)
  ELSE Plan("save", "", "push", u, 0, doc.v)

\* Variant of JoinRoomPlan that looks for the participant before it looks at
\* isActive, and so re-activates a participant of a soft-deleted room; C39
\* must fail with it.
JoinRoomPlanEntryFirst(doc, u) ==
  IF ~doc.exists THEN Plan("create", "", "", u, 0, 0)
  ELSE LET i == FindIndex(doc.participants, u) IN
       IF i # 0 THEN Plan("save", "", "activate", u, i, doc.v)
       ELSE IF ~doc.isActive THEN Plan("throw", "Room is not active", "", u, 0, 0)
       ELSE IF RoomIsFull(doc) THEN Plan("throw", "Room is full", "", u, 0, 0)
       ELSE Plan("save", "", "push", u, 0, doc.v)

JoinRoomPlan(doc, u) ==
  IF ~doc.exists THEN Plan("create", "", "", u, 0, 0)
  ELSE IF ~doc.isActive THEN Plan("throw", "Room is not active", "", u, 0, 0)
  ELSE LET i == FindIndex(doc.participants, u) IN
       IF i # 0 THEN Plan("save", "", "activate", u, i, doc.v)
       ELSE IF RoomIsFull(doc) THEN Plan("throw", "Room is full", "", u, 0, 0)
       ELSE Plan("save", "", "push", u, 0, doc.v)

\* Variant of LeaveRoomPlan that takes the participant's entry out of the room
\* instead of marking it inactive; C37 must fail with it.
LeaveRoomPlanRemove(doc, u) ==
  IF ~doc.exists THEN Plan("null", "", "", u, 0, 0)
  ELSE LET i == FindIndex(doc.participants, u) IN
       IF i # 0 THEN Plan("save", "", "splice", u, i, doc.v)
       ELSE Plan("save", "", "touch", u, 0, doc.v)

LeaveRoomPlan(doc, u) ==
  IF ~doc.exists THEN Plan("null", "", "", u, 0, 0)
  ELSE LET i == FindIndex(doc.participants, u) IN
       IF i # 0 THEN Plan("save", "", "deactivate", u, i, doc.v)
       ELSE Plan("save", "", "touch", u, 0, doc.v)

CreateRoomPlan(doc, u) ==
  IF doc.exists THEN Plan("throw", "Room with this name already exists", "", u, 0, 0)
  ELSE Plan("save", "", "insert", u, 0, 0)

\* deleteRoom: `return false` without a room, the creator-or-admin check, then
\* the soft delete
DeleteRoomPlan(doc, u) ==
  IF ~doc.exists THEN Plan("null", "", "", u, 0, 0)
  ELSE LET i == FindIndex(doc.participants, u) IN
       IF doc.createdBy # u /\ (i = 0 \/ doc.participants[i].role # "admin")
       THEN Plan("throw", "Only room creator or admins can delete the room", "", u, 0, 0)
       ELSE Plan("save", "", "delete", u, 0, doc.v)

\* room.save() of a loaded and modified document.  Mongoose sends only the
\* changed paths: a push to participants goes out as $push and increments the
\* document version; a change of participants.<i>.<field> goes out as $set with
\* the loaded version in the filter and fails with a VersionError when the stored
\* version differs; a change of top-level fields alone is a plain $set.
SaveRoom(doc, p) ==
  CASE p.op = "push" ->
         [ok |-> TRUE, err |-> "",
          doc |-> [doc EXCEPT !.participants = Append(@, Participant(p.user, "member")),
                              !.v = @ + 1]]
    [] p.op \in {"activate", "deactivate"} ->
         IF doc.v # p.v
         THEN [ok |-> FALSE, err |-> "VersionError", doc |-> doc]
         ELSE [ok |-> TRUE, err |-> "",
               doc |-> [doc EXCEPT !.participants[p.i].isActive = (p.op = "activate")]]
    [] p.op = "delete" ->
         [ok |-> TRUE, err |-> "", doc |-> [doc EXCEPT !.isActive = FALSE]]
    [] p.op = "splice" ->
         \* participants.splice: the array is sent whole, with the loaded
         \* version in the filter, and the version is incremented
         IF doc.v # p.v
         THEN [ok |-> FALSE, err |-> "VersionError", doc |-> doc]
         ELSE [ok |-> TRUE, err |-> "",
               doc |-> [doc EXCEPT
                          !.participants = SubSeq(@, 1, p.i - 1) \o SubSeq(@, p.i + 1, Len(@)),
                          !.v = @ + 1]]
    [] OTHER -> [ok |-> TRUE, err |-> "", doc |-> doc]

\* room.save() of the new document of createRoom: the unique index on name
InsertRoom(doc, u, cap) ==
  IF doc.exists
  THEN [ok |-> FALSE, err |-> "DuplicateKey", doc |-> doc]
  ELSE [ok |-> TRUE, err |-> "", doc |-> NewRoom(u, cap)]

\* ------------------------------------------------------------------ RoomService calls, run one at a time

\* The room the sequential behaviours work on (a RoomService call reads and
\* writes the one document it names).
SeqRoom == "vip"

Outcome(ok, err, doc) == [ok |-> ok, err |-> err, doc |-> doc]

\* RoomService.createRoom run to completion on doc
CreateRoomCall(doc, u, cap) ==
  LET p == CreateRoomPlan(doc, u) IN
  IF p.k = "throw" THEN Outcome(FALSE, p.err, doc)
  ELSE LET s == InsertRoom(doc, u, cap) IN Outcome(s.ok, s.err, s.doc)

\* RoomService.joinRoom run to completion on doc
JoinRoomCall(doc, u) ==
  LET p == JoinRoomPlan(doc, u) IN
  CASE p.k = "create" -> CreateRoomCall(doc, u, 0)
    [] p.k = "throw" -> Outcome(FALSE, p.err, doc)
    [] OTHER -> LET s == SaveRoom(doc, p) IN Outcome(s.ok, s.err, s.doc)

\* RoomService.leaveRoom run to completion on doc
LeaveRoomCall(doc, u) ==
  LET p == LeaveRoomPlan(doc, u) IN
  IF p.k = "null" THEN Outcome(TRUE, "not found", doc)
  ELSE LET s == SaveRoom(doc, p) IN Outcome(s.ok, s.err, s.doc)

\* RoomService.deleteRoom run to completion on doc
DeleteRoomCall(doc, u) ==
  LET p == DeleteRoomPlan(doc, u) IN
  CASE p.k = "null" -> Outcome(TRUE, "not found", doc)
    [] p.k = "throw" -> Outcome(FALSE, p.err, doc)
    [] OTHER -> LET s == SaveRoom(doc, p) IN Outcome(s.ok, s.err, s.doc)

\* room.participants.find(p => p.userId === u)?.role, "none" without an entry
RoleOf(doc, u) ==
  LET i == FindIndex(doc.participants, u) IN
  IF i = 0 THEN "none" ELSE doc.participants[i].role

\* RoomService.updateRoomSettings run to completion on doc: the settings given
\* are {flag: val}
UpdateRoomSettingsCall(doc, u, flag, val) ==
  IF ~doc.exists \/ ~doc.isActive THEN Outcome(TRUE, "not found", doc)
  ELSE IF RoleOf(doc, u) \notin {"admin", "moderator"}
  THEN Outcome(FALSE, "Insufficient permissions to update room settings", doc)
  ELSE Outcome(TRUE, "",
         [doc EXCEPT !.settings = IF val THEN @ \cup {flag} ELSE @ \ {flag}])

\* Variant of ChangeUserRoleCall that lets moderators change roles too; C16
\* must fail with it.
ChangeUserRoleCallModerator(doc, u, target, role) ==
  IF ~doc.exists \/ ~doc.isActive THEN Outcome(TRUE, "not found", doc)
  ELSE IF RoleOf(doc, u) \notin {"admin", "moderator"}
  THEN Outcome(FALSE, "Only admins can change user roles", doc)
  ELSE LET j == FindIndex(doc.participants, target) IN
       IF j = 0 THEN Outcome(FALSE, "User not found in room", doc)
       ELSE Outcome(TRUE, "", [doc EXCEPT !.participants[j].role = role])

\* RoomService.changeUserRole run to completion on doc
ChangeUserRoleCall(doc, u, target, role) ==
  IF ~doc.exists \/ ~doc.isActive THEN Outcome(TRUE, "not found", doc)
  ELSE IF RoleOf(doc, u) # "admin"
  THEN Outcome(FALSE, "Only admins can change user roles", doc)
  ELSE LET j == FindIndex(doc.participants, target) IN
       IF j = 0 THEN Outcome(FALSE, "User not found in room", doc)
       ELSE Outcome(TRUE, "", [doc EXCEPT !.participants[j].role = role])

\* participants.splice(j, 1)
Splice(parts, j) == SubSeq(parts, 1, j - 1) \o SubSeq(parts, j + 1, Len(parts))

\* RoomService.removeUserFromRoom (kick) run to completion on doc
RemoveUserFromRoomCall(doc, u, target) ==
  IF ~doc.exists \/ ~doc.isActive THEN Outcome(TRUE, "not found", doc)
  ELSE IF RoleOf(doc, u) \notin {"admin", "moderator"}
  THEN Outcome(FALSE, "Insufficient permissions to remove users", doc)
  ELSE LET j == FindIndex(doc.participants, target) IN
       IF j = 0 THEN Outcome(FALSE, "User not found in room", doc)
       ELSE IF doc.participants[j].role = "admin" /\ doc.createdBy # u
       THEN Outcome(FALSE, "Cannot remove other admins", doc)
       ELSE Outcome(TRUE, "",
              [doc EXCEPT !.participants = Splice(@, j), !.v = @ + 1])

NoCall ==
  [op |-> "none", user |-> NoUser, ok |-> FALSE, err |-> "", before |-> NoRoomDoc,
   streak |-> 0, n |-> 0]

\* lastCall after a call: streak counts the successful calls of the same
\* operation by the same user made in succession
Called(op, u, out, before) ==
  [op |-> op, user |-> u, ok |-> out.ok, err |-> out.err, before |-> before,
   streak |-> IF ~out.ok THEN 0
              ELSE IF lastCall.op = op /\ lastCall.user = u /\ lastCall.ok
                   THEN IF lastCall.streak < 2 THEN lastCall.streak + 1 ELSE 2
                   ELSE 1,
   n |-> lastCall.n + 1]

SeqUnchanged ==
  UNCHANGED <<messages, connectedUsers, userRoomMemberships, adapterRooms,
              sockets, tasks, events, failures, emits, done, isOnline>>

SeqCreateRoom(u, cap) ==
  /\ lastCall.n < MaxCalls
  /\ LET out == CreateRoomCall(rooms[SeqRoom], u, cap) IN
       /\ rooms' = [rooms EXCEPT ![SeqRoom] = out.doc]
       /\ lastCall' = Called("createRoom", u, out, rooms[SeqRoom])
  /\ SeqUnchanged

SeqJoinRoom(u) ==
  /\ lastCall.n < MaxCalls
  /\ LET out == JoinRoomCall(rooms[SeqRoom], u) IN
       /\ rooms' = [rooms EXCEPT ![SeqRoom] = out.doc]
       /\ lastCall' = Called("joinRoom", u, out, rooms[SeqRoom])
  /\ SeqUnchanged

SeqLeaveRoom(u) ==
  /\ lastCall.n < MaxCalls
  /\ LET out == LeaveRoomCall(rooms[SeqRoom], u) IN
       /\ rooms' = [rooms EXCEPT ![SeqRoom] = out.doc]
       /\ lastCall' = Called("leaveRoom", u, out, rooms[SeqRoom])
  /\ SeqUnchanged

SeqDeleteRoom(u) ==
  /\ lastCall.n < MaxCalls
  /\ LET out == DeleteRoomCall(rooms[SeqRoom], u) IN
       /\ rooms' = [rooms EXCEPT ![SeqRoom] = out.doc]
       /\ lastCall' = Called("deleteRoom", u, out, rooms[SeqRoom])
  /\ SeqUnchanged

SeqUpdateRoomSettings(u, flag, val) ==
  /\ lastCall.n < MaxCalls
  /\ LET out == UpdateRoomSettingsCall(rooms[SeqRoom], u, flag, val) IN
       /\ rooms' = [rooms EXCEPT ![SeqRoom] = out.doc]
       /\ lastCall' = Called("updateRoomSettings", u, out, rooms[SeqRoom])
  /\ SeqUnchanged

SeqChangeUserRole(u, target, role) ==
  /\ lastCall.n < MaxCalls
  /\ LET out == ChangeUserRoleCall(rooms[SeqRoom], u, target, role) IN
       /\ rooms' = [rooms EXCEPT ![SeqRoom] = out.doc]
       /\ lastCall' = Called("changeUserRole", u, out, rooms[SeqRoom])
  /\ SeqUnchanged

SeqRemoveUserFromRoom(u, target) ==
  /\ lastCall.n < MaxCalls
  /\ LET out == RemoveUserFromRoomCall(rooms[SeqRoom], u, target) IN
       /\ rooms' = [rooms EXCEPT ![SeqRoom] = out.doc]
       /\ lastCall' = Called("removeUserFromRoom", u, out, rooms[SeqRoom])
  /\ SeqUnchanged

\* ------------------------------------------------------------------ Session Registry (connectedUsers Map)

NoSession == [sid |-> NoSock, id |-> NoUser, room |-> NoRoom]

RegIndex(reg, s) ==
  IF \E i \in 1..Len(reg) : reg[i].sid = s
  THEN CHOOSE i \in 1..Len(reg) : reg[i].sid = s
  ELSE 0

\* connectedUsers.get(socket.id)
RegGet(reg, s) == IF RegIndex(reg, s) = 0 THEN NoSession ELSE reg[RegIndex(reg, s)]

\* connectedUsers.set(socket.id, {id, username, room}): a Map keeps the place of
\* an existing key and appends a new one
RegSet(reg, s, u, r) ==
  LET e == [sid |-> s, id |-> u, room |-> r] IN
  IF RegIndex(reg, s) = 0 THEN Append(reg, e) ELSE [reg EXCEPT ![RegIndex(reg, s)] = e]

\* user.room = room on the object held by the Map
RegSetRoom(reg, s, r) ==
  IF RegIndex(reg, s) = 0 THEN reg ELSE [reg EXCEPT ![RegIndex(reg, s)].room = r]

\* connectedUsers.delete(socket.id)
RegDelete(reg, s) ==
  LET i == RegIndex(reg, s) IN
  IF i = 0 THEN reg
  ELSE [j \in 1..(Len(reg) - 1) |-> IF j < i THEN reg[j] ELSE reg[j + 1]]

\* SocketRoomManager.getUsersInRoom(room), as the user ids it lists
GetUsersInRoom(reg, r) == {reg[i].id : i \in {j \in 1..Len(reg) : reg[j].room = r}}

\* SocketService.getRoomStats(room).users
GetRoomStats(reg, r) == GetUsersInRoom(reg, r)

\* the first entry of the Map whose user.id is u: `for (...) if (user.id === userId) {...; break}`
FirstSessionOf(reg, u) ==
  IF \E i \in 1..Len(reg) : reg[i].id = u
  THEN reg[CHOOSE i \in 1..Len(reg) :
             /\ reg[i].id = u
             /\ \A j \in 1..(i - 1) : reg[j].id # u]
  ELSE NoSession

\* ------------------------------------------------------------------ Room Membership Index (userRoomMemberships Map)

EmptyIndex == [u \in {} |-> {}]

\* SocketService.getUserRooms(userId)
GetUserRooms(idx, u) == IF u \in DOMAIN idx THEN idx[u] ELSE {}

\* SocketService.addUserToRoom(userId, room)
AddUserToRoom(idx, u, r) ==
  [x \in DOMAIN idx \cup {u} |-> IF x = u THEN GetUserRooms(idx, u) \cup {r} ELSE idx[x]]

\* Variant of RemoveUserFromRoom that leaves an entry, empty if need be, for
\* the user it was called for; C40 must fail with it.
RemoveUserFromRoomKeepEntry(idx, u, r) ==
  [x \in DOMAIN idx \cup {u} |->
     IF x = u THEN (IF u \in DOMAIN idx THEN idx[u] ELSE {}) \ {r} ELSE idx[x]]

\* SocketService.removeUserFromRoom(userId, room)
RemoveUserFromRoom(idx, u, r) ==
  IF u \notin DOMAIN idx THEN idx
  ELSE IF idx[u] \ {r} = {} THEN [x \in DOMAIN idx \ {u} |-> idx[x]]
  ELSE [idx EXCEPT ![u] = @ \ {r}]

\* SocketService.cleanupUserMemberships(userId)
CleanupUserMemberships(idx, u) == [x \in DOMAIN idx \ {u} |-> idx[x]]

\* rooms.forEach(room => this.addUserToRoom(userId, room))
AddUserToRooms(idx, u, rs) ==
  IF rs = {} THEN idx
  ELSE [x \in DOMAIN idx \cup {u} |-> IF x = u THEN GetUserRooms(idx, u) \cup rs ELSE idx[x]]

\* ------------------------------------------------------------------ initial state

NoDone ==
  [kind |-> "none", sock |-> NoSock, user |-> NoUser, room |-> NoRoom,
   ok |-> FALSE, err |-> "", fx |-> {}, n |-> 0, arg |-> FALSE,
   msg |-> 0, idx0 |-> {}, notified |-> {}, at |-> {}, emoji |-> "",
   escaped |-> FALSE, target |-> NoUser]

\* joined: the rooms the connection has completed a `join` or `join_room` for
\* and has not completed a `leave_room` for since
NewSocket ==
  [status |-> "new", user |-> NoUser, cred |-> "", handled |-> FALSE, joined |-> {}]

\* The server starts with empty registries; the store is the one earlier runs left.
InitLive ==
  /\ messages = <<>>
  /\ connectedUsers = <<>>
  /\ userRoomMemberships = EmptyIndex
  /\ adapterRooms = [s \in Sockets |-> {}]
  /\ sockets = [s \in Sockets |-> NewSocket]
  /\ tasks = {}
  /\ events = 0
  /\ failures = 0
  /\ emits = <<>>
  /\ done = NoDone
  /\ lastCall = NoCall
  /\ isOnline = [u \in Users |-> FALSE]

\* an empty store
InitSeq ==
  /\ rooms = [r \in RoomNames |-> NoRoomDoc]
  /\ InitLive

\* the documents POST /api/rooms with maxParticipants 1..MaxCap left in the
\* store, some of them soft-deleted since
StoredRooms ==
  {[NewRoom("alice", c) EXCEPT !.isActive = a] : c \in 1..MaxCap, a \in BOOLEAN}

\* a store in which a room of R may exist already
InitOf(R) ==
  /\ rooms \in [RoomNames -> {NoRoomDoc} \cup StoredRooms]
  /\ \A r \in RoomNames \ R : rooms[r] = NoRoomDoc
  /\ InitLive

\* ------------------------------------------------------------------ sockets, tasks, emissions

\* an awaited store call returns (TRUE) or throws (FALSE)
StoreOutcomes == IF failures < MaxFailures THEN BOOLEAN ELSE {TRUE}

Fails(ok) == failures' = IF ok THEN failures ELSE failures + 1

\* sockets of the namespace (io.sockets.sockets): from the handshake to the disconnect
Live(sk) == {s \in Sockets : sk[s].status \in {"connecting", "active"}}

\* live sockets in the transport group of room r
InRoom(ad, sk, r) == {s \in Live(sk) : r \in ad[s]}

\* One emission: the event, the socket it was emitted through, how it was
\* addressed ("self": socket.emit, "room": io.to(room) / socket.to(room),
\* "all": io.emit / socket.broadcast, "user": io.to(socketId)), the sockets that
\* receive it, the room and the message it is about.
Emit(ev, src, dest, to, r, m) ==
  [ev |-> ev, src |-> src, dest |-> dest, to |-> to, room |-> r, msg |-> m]

\* socket.emit(ev)
ToSelf(ev, s, sk, r) == Emit(ev, s, "self", {s} \cap Live(sk), r, 0)

\* socket.to(room).emit(ev)
ToOthersInRoom(ev, s, ad, sk, r) == Emit(ev, s, "room", InRoom(ad, sk, r) \ {s}, r, 0)

\* io.to(room).emit(ev) / SocketService.sendToRoom
SendToRoom(ev, s, ad, sk, r, m) == Emit(ev, s, "room", InRoom(ad, sk, r), r, m)

\* io.emit(ev) / SocketService.broadcast
Broadcast(ev, s, sk, m) == Emit(ev, s, "all", Live(sk), NoRoom, m)

\* SocketService.sendToUser: the first session of the user, then break
SendToUser(ev, reg, sk, u, r) ==
  LET e == FirstSessionOf(reg, u) IN
  IF e.sid = NoSock THEN <<>>
  ELSE <<Emit(ev, NoSock, "user", {e.sid} \cap Live(sk), r, 0)>>

\* A suspended handler: its event number, kind, the await it is suspended on,
\* its socket (NoSock for an HTTP call), user and room, and its locals.
\*   arg      leave_room: an explicit room was given
\*   ref      leave_room: the `user` object read from the Map at the start
\*            ("none": undefined, "live": the object the Map holds, "stale": an
\*            object the Map no longer holds)
\*   plan     the pending change of the loaded room document
\*   cap      POST /api/rooms: maxParticipants of the request
\*   msg      send_message: the saved message
\*   fx       what the handler has changed of the live state so far
\*   idx0     disconnect: the user's index entry when the event arrived;
\*            send_message: the users whose index entry held the room then
\*   notified disconnect: rooms sent user_left
\*   at       send_message, POST /api/messages: the `@word` tokens of the content
\*   emoji    add_reaction: the emoji of the request
\*   target   removeUserFromRoom: the user to remove
Task(n, kind, pc, s, u, r) ==
  [n |-> n, kind |-> kind, pc |-> pc, sock |-> s, user |-> u, room |-> r,
   arg |-> FALSE, ref |-> "none", plan |-> NoPlan, cap |-> 0, msg |-> 0,
   fx |-> {}, idx0 |-> {}, notified |-> {}, at |-> {}, emoji |-> "",
   target |-> NoUser]

Done(t, ok, err) ==
  [kind |-> t.kind, sock |-> t.sock, user |-> t.user, room |-> t.room,
   ok |-> ok, err |-> err, fx |-> t.fx, n |-> t.n, arg |-> t.arg,
   msg |-> t.msg, idx0 |-> t.idx0, notified |-> t.notified, at |-> t.at,
   emoji |-> t.emoji, escaped |-> FALSE, target |-> t.target]

InFlight == Cardinality(tasks)

Replace(t, t2) == (tasks \ {t}) \cup {t2}

\* connectedUsers.set replaced the object of socket s: a leave_room handler of
\* s that read the old object now holds an object the Map does not
MarkStale(ts, s) ==
  {IF t.sock = s /\ t.kind = "leave_room" /\ t.ref = "live"
   THEN [t EXCEPT !.ref = "stale"] ELSE t : t \in ts}

\* `if (!socket.user) return` at the top of a handler
ReturnsAtOnce(s) ==
  /\ sockets' = [sockets EXCEPT ![s].handled = TRUE]
  /\ emits' = <<>>
  /\ done' = NoDone
  /\ UNCHANGED <<rooms, messages, connectedUsers, userRoomMemberships, adapterRooms,
                 tasks, lastCall, isOnline>>

Handled(s) == sockets' = [sockets EXCEPT ![s].handled = TRUE]

\* the sockets once handler d has returned: a `join` or `join_room` that
\* confirmed the room, or a `leave_room` that confirmed the leave
Joined(sk, d) ==
  IF d.kind \in {"join", "join_room"} /\ d.ok /\ d.room # NoRoom
  THEN [sk EXCEPT ![d.sock].joined = @ \cup {d.room}]
  ELSE IF d.kind = "leave_room" /\ d.ok /\ d.room # NoRoom
  THEN [sk EXCEPT ![d.sock].joined = @ \ {d.room}]
  ELSE sk

\* ------------------------------------------------------------------ handshake and connection handler

\* Variant of SocketAuthMiddleware that lets a handshake without a token
\* through; C9 must fail with it.
SocketAuthMiddlewareLax(cred) == IF cred = "invalid" THEN "reject" ELSE "accept"

\* socketAuthMiddleware: the credential is "none" (no token), "invalid" (verifyToken
\* throws) or the user a valid token names
SocketAuthMiddleware(cred) ==
  IF cred = "none" THEN "reject"
  ELSE IF cred = "invalid" THEN "reject"
  ELSE "accept"

VerifyToken(cred) == IF cred \in Users THEN cred ELSE NoUser

\* AuthService.updateUserStatus(userId, isOnline), called without await: the
\* update is taken to reach the store at the call, and its failure is swallowed
UpdateUserStatus(st, u, on) == [st EXCEPT ![u] = on]

\* A client connects: io.use(socketAuthMiddleware), then io.on(CONNECTION) up to
\* `await RoomService.getUserRooms`
Handshake(s, cred) ==
  /\ sockets[s].status = "new"
  /\ UNCHANGED failures
  /\ IF SocketAuthMiddleware(cred) = "reject"
     THEN /\ sockets' = [sockets EXCEPT ![s] = [@ EXCEPT !.status = "rejected", !.cred = cred]]
          /\ tasks' = tasks
          /\ UNCHANGED isOnline
     ELSE LET u == VerifyToken(cred) IN
          IF u = NoUser
          THEN /\ sockets' = [sockets EXCEPT ![s] =
                                [@ EXCEPT !.status = "active", !.cred = cred]]
               /\ tasks' = tasks
               /\ UNCHANGED isOnline
          ELSE /\ sockets' = [sockets EXCEPT ![s] =
                                [@ EXCEPT !.status = "connecting", !.cred = cred, !.user = u]]
               /\ tasks' = tasks \cup {Task(0, "connect", "getUserRooms", s, u, NoRoom)}
               /\ isOnline' = UpdateUserStatus(isOnline, u, TRUE)
  /\ emits' = <<>>
  /\ done' = NoDone
  /\ UNCHANGED <<rooms, messages, connectedUsers, userRoomMemberships, adapterRooms,
                 events, lastCall>>

\* Room.find({'participants.userId': userId, 'participants.isActive': true, isActive: true}):
\* the two participants conditions are matched independently of each other
UserRoomsQuery(doc, u) ==
  /\ doc.exists
  /\ doc.isActive
  /\ \E i \in 1..Len(doc.participants) : doc.participants[i].userId = u
  /\ \E i \in 1..Len(doc.participants) : doc.participants[i].isActive

\* RoomService.getUserRooms(userId), as room names
UserRoomNames(rs, u) == {r \in RoomNames : UserRoomsQuery(rs[r], u)}

\* the socket subscribeUserToRooms works on: the first session of the user, if
\* its socket is still in the namespace
SubscribedSocket(reg, sk, u) ==
  LET e == FirstSessionOf(reg, u) IN
  IF e.sid # NoSock /\ e.sid \in Live(sk) THEN e.sid ELSE NoSock

\* the rest of io.on(CONNECTION): subscribeUserToRooms, socket.join of every room,
\* and the registration of the event handlers
ConnectGetUserRooms(t) ==
  /\ t \in tasks /\ t.kind = "connect"
  /\ \E ok \in StoreOutcomes :
       /\ Fails(ok)
       /\ LET names == IF ok THEN UserRoomNames(rooms, t.user) ELSE {}
              sub == SubscribedSocket(connectedUsers, sockets, t.user)
          IN /\ userRoomMemberships' =
                  IF sub = NoSock THEN userRoomMemberships
                  ELSE AddUserToRooms(userRoomMemberships, t.user, names)
             /\ adapterRooms' =
                  [s \in Sockets |->
                     IF s = t.sock \/ s = sub THEN adapterRooms[s] \cup names
                     ELSE adapterRooms[s]]
             /\ done' = Done([t EXCEPT !.idx0 = names], ok, IF ok THEN "" ELSE "StoreError")
  /\ sockets' = [sockets EXCEPT ![t.sock].status =
                   IF @ = "connecting" THEN "active" ELSE @]
  /\ tasks' = tasks \ {t}
  /\ emits' = <<>>
  /\ UNCHANGED <<rooms, messages, connectedUsers, events, lastCall, isOnline>>

\* ------------------------------------------------------------------ join, join_room, POST /join-room

\* socket.on(JOIN), up to `await Room.findOne` in RoomService.joinRoom
Join(s, r) ==
  /\ sockets[s].status = "active"
  /\ UNCHANGED failures
  /\ r # NoRoom => InFlight < MaxInFlight
  /\ events' = events + 1
  /\ LET u == sockets[s].user
         old == RegGet(connectedUsers, s)
         t == [Task(events + 1, "join", "findOne", s, u, r) EXCEPT
                 !.fx = IF old.sid = NoSock \/ old.room # r THEN {"currentRoom"} ELSE {}]
     IN IF u = NoUser THEN ReturnsAtOnce(s)
        ELSE /\ isOnline' = UpdateUserStatus(isOnline, u, TRUE)
             /\ connectedUsers' = RegSet(connectedUsers, s, u, r)
             /\ Handled(s)
             /\ IF r = NoRoom
                THEN /\ tasks' = MarkStale(tasks, s)
                     /\ emits' = <<ToSelf("joined", s, sockets, r)>>
                     /\ done' = Done(t, TRUE, "")
                ELSE /\ tasks' = MarkStale(tasks, s) \cup {t}
                     /\ emits' = <<>>
                     /\ done' = NoDone
             /\ UNCHANGED <<rooms, messages, userRoomMemberships, adapterRooms, lastCall>>

\* socket.on(JOIN_ROOM), up to `await Room.findOne` in RoomService.joinRoom
JoinRoom(s, r) ==
  /\ sockets[s].status = "active"
  /\ UNCHANGED failures
  /\ InFlight < MaxInFlight
  /\ events' = events + 1
  /\ LET u == sockets[s].user IN
     IF u = NoUser THEN ReturnsAtOnce(s)
     ELSE /\ tasks' = tasks \cup {Task(events + 1, "join_room", "findOne", s, u, r)}
          /\ Handled(s)
          /\ emits' = <<>>
          /\ done' = NoDone
          /\ UNCHANGED <<rooms, messages, connectedUsers, userRoomMemberships,
                         adapterRooms, lastCall, isOnline>>

\* POST /api/socket/join-room, up to `await Room.findOne` in RoomService.joinRoom
HttpJoinRoom(u, r) ==
  /\ UNCHANGED failures
  /\ InFlight < MaxInFlight
  /\ events' = events + 1
  /\ tasks' = tasks \cup {Task(events + 1, "http_join", "findOne", NoSock, u, r)}
  /\ emits' = <<>>
  /\ done' = NoDone
  /\ UNCHANGED <<rooms, messages, connectedUsers, userRoomMemberships, adapterRooms,
                 sockets, lastCall, isOnline>>

\* The caller's code after `await RoomService.joinRoom(...)` returned (ok) or
\* threw (err), up to the caller's next await.
\* The step that calls this sets rooms'.
CallReturned(t, ok, err) ==
  LET s == t.sock
      r == t.room
      u == t.user
      joined == [s2 \in Sockets |-> IF s2 = s THEN adapterRooms[s2] \cup {r}
                                    ELSE adapterRooms[s2]]
      grp == IF r \in adapterRooms[s] THEN {} ELSE {"group"}
  IN
  CASE t.kind = "join" /\ ok ->
         \* socket.join(room); socket.to(room).emit(USER_JOINED); await getRoomMessages
         /\ adapterRooms' = joined
         /\ emits' = <<ToOthersInRoom("user_joined", s, joined, sockets, r)>>
         /\ tasks' = Replace(t, [t EXCEPT !.pc = "getRoomMessages",
                                          !.fx = @ \cup grp \cup {"user_joined"}])
         /\ done' = NoDone
         /\ UNCHANGED <<connectedUsers, userRoomMemberships>>
    [] t.kind = "join_room" /\ ok ->
         \* socket.join(room); addUserToRoom; user.room = room; emit USER_JOINED;
         \* await getRoomMessages
         /\ adapterRooms' = joined
         /\ userRoomMemberships' = AddUserToRoom(userRoomMemberships, u, r)
         /\ connectedUsers' = RegSetRoom(connectedUsers, s, r)
         /\ emits' = <<ToOthersInRoom("user_joined", s, joined, sockets, r)>>
         /\ tasks' = Replace(t, [t EXCEPT
              !.pc = "getRoomMessages",
              !.fx = @ \cup grp \cup {"user_joined"}
                       \cup (IF r \in GetUserRooms(userRoomMemberships, u)
                             THEN {} ELSE {"index"})
                       \cup (IF RegSetRoom(connectedUsers, s, r) = connectedUsers
                             THEN {} ELSE {"currentRoom"})])
         /\ done' = NoDone
    [] t.kind = "http_join" /\ ok ->
         \* addUserToRoom; await AuthService.updateUserRoom
         /\ userRoomMemberships' = AddUserToRoom(userRoomMemberships, u, r)
         /\ tasks' = Replace(t, [t EXCEPT !.pc = "updateUserRoom"])
         /\ emits' = <<>>
         /\ done' = NoDone
         /\ UNCHANGED <<connectedUsers, adapterRooms>>
    [] t.kind \in {"join", "join_room"} /\ ~ok ->
         \* catch: socket.emit('error')
         /\ emits' = <<ToSelf("error", s, sockets, r)>>
         /\ tasks' = tasks \ {t}
         /\ done' = Done(t, FALSE, err)
         /\ UNCHANGED <<connectedUsers, userRoomMemberships, adapterRooms>>
    [] OTHER ->
         \* POST /join-room answers 400
         /\ emits' = <<>>
         /\ tasks' = tasks \ {t}
         /\ done' = Done(t, ok, err)
         /\ UNCHANGED <<connectedUsers, userRoomMemberships, adapterRooms>>

JoinKinds == {"join", "join_room", "http_join"}

\* `await Room.findOne({name})` of RoomService.joinRoom returns, and joinRoom
\* runs up to createRoom's findOne, to its throw, or to room.save()
JoinRoomFindOne(t) ==
  /\ t \in tasks /\ t.kind \in JoinKinds /\ t.pc = "findOne"
  /\ \E ok \in StoreOutcomes :
       /\ Fails(ok)
       /\ LET p == JoinRoomPlan(rooms[t.room], t.user) IN
          IF ~ok THEN CallReturned(t, FALSE, "StoreError")
          ELSE IF p.k = "throw" THEN CallReturned(t, FALSE, p.err)
          ELSE /\ tasks' = Replace(t, [t EXCEPT
                    !.pc = IF p.k = "create" THEN "createFindOne" ELSE "save",
                    !.plan = p])
               /\ emits' = <<>>
               /\ done' = NoDone
               /\ UNCHANGED <<connectedUsers, userRoomMemberships, adapterRooms>>
  /\ UNCHANGED <<rooms, messages, sockets, events, lastCall, isOnline>>

\* `await Room.findOne({name})` of RoomService.createRoom returns
CreateRoomFindOne(t) ==
  /\ t \in tasks /\ t.pc = "createFindOne"
  /\ \E ok \in StoreOutcomes :
       /\ Fails(ok)
       /\ LET p == CreateRoomPlan(rooms[t.room], t.user) IN
          IF ~ok THEN CallReturned(t, FALSE, "StoreError")
          ELSE IF p.k = "throw" THEN CallReturned(t, FALSE, p.err)
          ELSE /\ tasks' = Replace(t, [t EXCEPT !.pc = "createSave", !.plan = p])
               /\ emits' = <<>>
               /\ done' = NoDone
               /\ UNCHANGED <<connectedUsers, userRoomMemberships, adapterRooms>>
  /\ UNCHANGED <<rooms, messages, sockets, events, lastCall, isOnline>>

\* `await room.save()` of RoomService.createRoom returns
CreateRoomSave(t) ==
  /\ t \in tasks /\ t.pc = "createSave"
  /\ \E ok \in StoreOutcomes :
       /\ Fails(ok)
       /\ LET w == InsertRoom(rooms[t.room], t.user, t.cap) IN
          IF ~ok THEN /\ rooms' = rooms
                      /\ CallReturned(t, FALSE, "StoreError")
          ELSE /\ rooms' = [rooms EXCEPT ![t.room] = w.doc]
               /\ CallReturned(t, w.ok, w.err)
  /\ UNCHANGED <<messages, sockets, events, lastCall, isOnline>>

\* `await room.save()` of RoomService.joinRoom returns
JoinRoomSave(t) ==
  /\ t \in tasks /\ t.kind \in JoinKinds /\ t.pc = "save"
  /\ \E ok \in StoreOutcomes :
       /\ Fails(ok)
       /\ LET w == SaveRoom(rooms[t.room], t.plan) IN
          IF ~ok THEN /\ rooms' = rooms
                      /\ CallReturned(t, FALSE, "StoreError")
          ELSE /\ rooms' = [rooms EXCEPT ![t.room] = w.doc]
               /\ CallReturned(t, w.ok, w.err)
  /\ UNCHANGED <<messages, sockets, events, lastCall, isOnline>>

\* `await MessageService.getRoomMessages(room, 20)` returns to the join or
\* join_room handler, which emits the history and the confirmation
GetRoomMessages(t) ==
  /\ t \in tasks /\ t.pc = "getRoomMessages"
  /\ \E ok \in StoreOutcomes :
       /\ Fails(ok)
       /\ emits' =
            IF ~ok THEN <<ToSelf("error", t.sock, sockets, t.room)>>
            ELSE IF t.kind = "join"
                 THEN <<ToSelf("room_history", t.sock, sockets, t.room),
                        ToSelf("joined", t.sock, sockets, t.room)>>
                 ELSE <<ToSelf("room_joined", t.sock, sockets, t.room)>>
       /\ done' = Done(t, ok, IF ok THEN "" ELSE "StoreError")
  /\ sockets' = Joined(sockets, done')
  /\ tasks' = tasks \ {t}
  /\ UNCHANGED <<rooms, messages, connectedUsers, userRoomMemberships, adapterRooms,
                 events, lastCall, isOnline>>

\* `await AuthService.updateUserRoom` returns to POST /join-room (it swallows
\* its own failures), which notifies the user and answers
HttpUpdateUserRoom(t) ==
  /\ t \in tasks /\ t.pc = "updateUserRoom"
  /\ emits' = SendToUser("room_joined_api", connectedUsers, sockets, t.user, t.room)
  /\ done' = Done(t, TRUE, "")
  /\ tasks' = tasks \ {t}
  /\ UNCHANGED <<rooms, messages, connectedUsers, userRoomMemberships, adapterRooms,
                 sockets, events, failures, lastCall, isOnline>>

\* ------------------------------------------------------------------ leave_room

\* socket.on(LEAVE_ROOM), up to `await Room.findOne` in RoomService.leaveRoom;
\* r is the room argument, NoRoom when the client gave none
LeaveRoom(s, r) ==
  /\ sockets[s].status = "active"
  /\ UNCHANGED failures
  /\ InFlight < MaxInFlight
  /\ events' = events + 1
  /\ LET u == sockets[s].user
         user == RegGet(connectedUsers, s)
         currentRoom == IF r # NoRoom THEN r ELSE user.room
         t == [Task(events + 1, "leave_room", "findOne", s, u, currentRoom) EXCEPT
                 !.arg = (r # NoRoom),
                 !.ref = IF user.sid = NoSock THEN "none" ELSE "live"]
     IN IF u = NoUser THEN ReturnsAtOnce(s)
        ELSE IF currentRoom = NoRoom
        THEN \* `if (!currentRoom) return`
             /\ Handled(s)
             /\ emits' = <<>>
             /\ done' = Done(t, TRUE, "")
             /\ UNCHANGED <<rooms, messages, connectedUsers, userRoomMemberships,
                            adapterRooms, tasks, lastCall, isOnline>>
        ELSE \* socket.leave(currentRoom)
             /\ Handled(s)
             /\ adapterRooms' = [adapterRooms EXCEPT ![s] = @ \ {currentRoom}]
             /\ tasks' = tasks \cup {t}
             /\ emits' = <<>>
             /\ done' = NoDone
             /\ UNCHANGED <<rooms, messages, connectedUsers, userRoomMemberships, lastCall, isOnline>>

\* The leave_room handler after `await RoomService.leaveRoom(...)` returned or
\* threw.  The step that calls this sets rooms'.
LeaveReturned(t, ok, err) ==
  IF ~ok
  THEN /\ emits' = <<ToSelf("error", t.sock, sockets, t.room)>>
       /\ done' = Done(t, FALSE, err)
       /\ tasks' = tasks \ {t}
       /\ UNCHANGED <<connectedUsers, userRoomMemberships, adapterRooms>>
  ELSE \* removeUserFromRoom; socket.to(room).emit(USER_LEFT);
       \* if (!roomToLeave && user) user.room = undefined; socket.emit(ROOM_LEFT)
       /\ userRoomMemberships' = RemoveUserFromRoom(userRoomMemberships, t.user, t.room)
       /\ connectedUsers' =
            IF ~t.arg /\ t.ref = "live"
            THEN RegSetRoom(connectedUsers, t.sock, NoRoom)
            ELSE connectedUsers
       /\ emits' = <<ToOthersInRoom("user_left", t.sock, adapterRooms, sockets, t.room),
                     ToSelf("room_left", t.sock, sockets, t.room)>>
       /\ done' = Done(t, TRUE, err)
       /\ tasks' = tasks \ {t}
       /\ UNCHANGED adapterRooms

\* `await Room.findOne({name})` of RoomService.leaveRoom returns
LeaveRoomFindOne(t) ==
  /\ t \in tasks /\ t.kind = "leave_room" /\ t.pc = "findOne"
  /\ \E ok \in StoreOutcomes :
       /\ Fails(ok)
       /\ LET p == LeaveRoomPlan(rooms[t.room], t.user) IN
          IF ~ok THEN LeaveReturned(t, FALSE, "StoreError")
          ELSE IF p.k = "null" THEN LeaveReturned(t, TRUE, "not found")
          ELSE /\ tasks' = Replace(t, [t EXCEPT !.pc = "save", !.plan = p])
               /\ emits' = <<>>
               /\ done' = NoDone
               /\ UNCHANGED <<connectedUsers, userRoomMemberships, adapterRooms>>
  /\ sockets' = Joined(sockets, done')
  /\ UNCHANGED <<rooms, messages, events, lastCall, isOnline>>

\* `await room.save()` of RoomService.leaveRoom returns
LeaveRoomSave(t) ==
  /\ t \in tasks /\ t.kind = "leave_room" /\ t.pc = "save"
  /\ \E ok \in StoreOutcomes :
       /\ Fails(ok)
       /\ LET w == SaveRoom(rooms[t.room], t.plan) IN
          IF ~ok THEN /\ rooms' = rooms
                      /\ LeaveReturned(t, FALSE, "StoreError")
          ELSE /\ rooms' = [rooms EXCEPT ![t.room] = w.doc]
               /\ LeaveReturned(t, w.ok, w.err)
  /\ sockets' = Joined(sockets, done')
  /\ UNCHANGED <<messages, events, lastCall, isOnline>>

\* ------------------------------------------------------------------ POST /leave-room

\* POST /api/socket/leave-room, up to `await Room.findOne` in RoomService.leaveRoom
HttpLeaveRoom(u, r) ==
  /\ UNCHANGED failures
  /\ InFlight < MaxInFlight
  /\ events' = events + 1
  /\ tasks' = tasks \cup {Task(events + 1, "http_leave", "findOne", NoSock, u, r)}
  /\ emits' = <<>>
  /\ done' = NoDone
  /\ UNCHANGED <<rooms, messages, connectedUsers, userRoomMemberships, adapterRooms,
                 sockets, lastCall, isOnline>>

\* The route after `await RoomService.leaveRoom(...)` returned or threw: on
\* success removeUserFromRoom, sendToUser('room_left_api') and the 200 answer,
\* on failure the 400 answer.  The step that calls this sets rooms'.
HttpLeaveReturned(t, ok, err) ==
  /\ userRoomMemberships' =
       IF ok THEN RemoveUserFromRoom(userRoomMemberships, t.user, t.room)
       ELSE userRoomMemberships
  /\ emits' = IF ok THEN SendToUser("room_left_api", connectedUsers, sockets, t.user, t.room)
              ELSE <<>>
  /\ done' = Done(t, ok, err)
  /\ tasks' = tasks \ {t}

\* `await Room.findOne({name})` of RoomService.leaveRoom returns to the route
HttpLeaveFindOne(t) ==
  /\ t \in tasks /\ t.kind = "http_leave" /\ t.pc = "findOne"
  /\ \E ok \in StoreOutcomes :
       /\ Fails(ok)
       /\ LET p == LeaveRoomPlan(rooms[t.room], t.user) IN
          IF ~ok THEN HttpLeaveReturned(t, FALSE, "StoreError")
          ELSE IF p.k = "null" THEN HttpLeaveReturned(t, TRUE, "not found")
          ELSE /\ tasks' = Replace(t, [t EXCEPT !.pc = "save", !.plan = p])
               /\ emits' = <<>>
               /\ done' = NoDone
               /\ UNCHANGED userRoomMemberships
  /\ UNCHANGED <<rooms, messages, connectedUsers, adapterRooms, sockets, events, lastCall, isOnline>>

\* `await room.save()` of RoomService.leaveRoom returns to the route
HttpLeaveSave(t) ==
  /\ t \in tasks /\ t.kind = "http_leave" /\ t.pc = "save"
  /\ \E ok \in StoreOutcomes :
       /\ Fails(ok)
       /\ LET w == SaveRoom(rooms[t.room], t.plan) IN
          IF ~ok THEN /\ rooms' = rooms
                      /\ HttpLeaveReturned(t, FALSE, "StoreError")
          ELSE /\ rooms' = [rooms EXCEPT ![t.room] = w.doc]
               /\ HttpLeaveReturned(t, w.ok, w.err)
  /\ UNCHANGED <<messages, connectedUsers, adapterRooms, sockets, events, lastCall, isOnline>>

\* ------------------------------------------------------------------ send_message

\* a persisted message: _id is its place in the collection
Message(u, r) ==
  [sender |-> u, room |-> r, content |-> "text", reactions |-> <<>>,
   isEdited |-> FALSE, isDeleted |-> FALSE]

\* AuthUser.username of user id u; ids are ObjectId strings, usernames are free
\* text, and no id is a username
Username(u) ==
  CASE u = "alice" -> "Alice"
    [] u = "bob" -> "Bob"
    [] u = "carol" -> "Carol"
    [] OTHER -> ""

\* socket.on(SEND_MESSAGE), up to `await message.save()` in MessageService.createMessage;
\* at is the set of `@word` tokens of data.message, and data.mentions is absent
SendMessageOf(s, r, at) ==
  /\ sockets[s].status = "active"
  /\ UNCHANGED failures
  /\ InFlight < MaxInFlight
  /\ events' = events + 1
  /\ LET u == sockets[s].user IN
     IF u = NoUser THEN ReturnsAtOnce(s)
     ELSE /\ tasks' = tasks \cup
               {[Task(events + 1, "send_message", "messageSave", s, u, r) EXCEPT
                   !.idx0 = {x \in Users : r \in GetUserRooms(userRoomMemberships, x)},
                   !.at = at]}
          /\ Handled(s)
          /\ emits' = <<>>
          /\ done' = NoDone
          /\ UNCHANGED <<rooms, messages, connectedUsers, userRoomMemberships,
                         adapterRooms, lastCall, isOnline>>

\* send_message with a content that has no `@word` token
SendMessage(s, r) == SendMessageOf(s, r, {})

\* the fan-out of the send_message handler once createMessage returned
FanOut(t, m) ==
  IF t.room # NoRoom
  THEN <<SendToRoom("receive_message", t.sock, adapterRooms, sockets, t.room, m)>>
  ELSE <<Broadcast("receive_message", t.sock, sockets, m)>>

\* Variant of MessageSave that fans the message out whether or not the save
\* succeeded; C7 must fail with it.
MessageSaveEarly(t) ==
  /\ t \in tasks /\ t.kind = "send_message" /\ t.pc = "messageSave"
  /\ \E ok \in StoreOutcomes :
       /\ Fails(ok)
       /\ LET m == Len(messages) + 1 IN
          /\ messages' = IF ok THEN Append(messages, Message(t.user, t.room)) ELSE messages
          /\ emits' = FanOut(t, m)
          /\ done' = Done([t EXCEPT !.msg = m], ok, IF ok THEN "" ELSE "StoreError")
          /\ tasks' = tasks \ {t}
  /\ UNCHANGED <<rooms, connectedUsers, userRoomMemberships, adapterRooms, sockets,
                 events, lastCall, isOnline>>

\* `await message.save()` of createMessage returns; a roomless message is
\* broadcast at once, a room message goes on to `await Room.findOneAndUpdate`
MessageSave(t) ==
  /\ t \in tasks /\ t.kind = "send_message" /\ t.pc = "messageSave"
  /\ \E ok \in StoreOutcomes :
       /\ Fails(ok)
       /\ LET m == Len(messages) + 1 IN
          IF ~ok
          THEN /\ messages' = messages
               /\ emits' = <<ToSelf("error", t.sock, sockets, t.room)>>
               /\ done' = Done(t, FALSE, "StoreError")
               /\ tasks' = tasks \ {t}
          ELSE /\ messages' = Append(messages, Message(t.user, t.room))
               /\ IF t.room # NoRoom
                  THEN /\ tasks' = Replace(t, [t EXCEPT !.pc = "roomUpdate", !.msg = m])
                       /\ emits' = <<>>
                       /\ done' = NoDone
                  ELSE /\ tasks' = tasks \ {t}
                       /\ emits' = FanOut(t, m)
                       /\ done' = Done([t EXCEPT !.msg = m], TRUE, "")
  /\ UNCHANGED <<rooms, connectedUsers, userRoomMemberships, adapterRooms, sockets,
                 events, lastCall, isOnline>>

\* `await Room.findOneAndUpdate({name}, {$inc: {messageCount: 1}, ...})` of
\* createMessage returns: createMessage emits 'newMessage' to the room and the
\* handler fans receive_message out
RoomUpdate(t) ==
  /\ t \in tasks /\ t.kind = "send_message" /\ t.pc = "roomUpdate"
  /\ \E ok \in StoreOutcomes :
       /\ Fails(ok)
       /\ IF ~ok
          THEN /\ emits' = <<ToSelf("error", t.sock, sockets, t.room)>>
               /\ done' = Done(t, FALSE, "StoreError")
          ELSE /\ emits' = <<SendToRoom("newMessage", t.sock, adapterRooms, sockets,
                                        t.room, t.msg)>> \o FanOut(t, t.msg)
               /\ done' = Done(t, TRUE, "")
  /\ tasks' = tasks \ {t}
  /\ UNCHANGED <<rooms, messages, connectedUsers, userRoomMemberships, adapterRooms,
                 sockets, events, lastCall, isOnline>>

\* ------------------------------------------------------------------ disconnect

RECURSIVE SetToSeq(_)
SetToSeq(S) ==
  IF S = {} THEN <<>>
  ELSE LET x == CHOOSE y \in S : TRUE IN <<x>> \o SetToSeq(S \ {x})

\* userRooms.forEach(room => socket.to(room).emit(USER_LEFT))
UserLeftAll(s, rs, ad, sk) ==
  LET q == SetToSeq(rs) IN
  [i \in 1..Len(q) |-> ToOthersInRoom("user_left", s, ad, sk, q[i])]

\* Variant of Disconnect that clears the Membership Index entry before it reads
\* the rooms to notify, so that nobody is notified; C25 must fail with it.
DisconnectClearFirst(s) ==
  /\ sockets[s].status \in {"connecting", "active"}
  /\ LET u == sockets[s].user
         sk == [sockets EXCEPT ![s].status = "disconnected"]
         ad == [adapterRooms EXCEPT ![s] = {}]
         user == RegGet(connectedUsers, s)
         had == GetUserRooms(userRoomMemberships, u)
         left == UserLeftAll(s, {}, ad, sk)
         t == [Task(events + 1, "disconnect", "updateLastSeen", s, u, user.room) EXCEPT
                 !.idx0 = had, !.notified = {left[i].room : i \in 1..Len(left)}]
     IN /\ adapterRooms' = ad
        /\ IF sockets[s].status = "connecting" \/ u = NoUser
           THEN /\ sockets' = sk
                /\ emits' = <<>>
                /\ done' = NoDone
                /\ UNCHANGED <<connectedUsers, userRoomMemberships, tasks, isOnline>>
           ELSE /\ sockets' = [sk EXCEPT ![s].handled = TRUE]
                /\ isOnline' = UpdateUserStatus(isOnline, u, FALSE)
                /\ emits' = left
                /\ userRoomMemberships' = CleanupUserMemberships(userRoomMemberships, u)
                /\ IF user.room # NoRoom
                   THEN /\ tasks' = tasks \cup {t}
                        /\ done' = NoDone
                        /\ UNCHANGED connectedUsers
                   ELSE /\ connectedUsers' = RegDelete(connectedUsers, s)
                        /\ done' = Done(t, TRUE, "")
                        /\ UNCHANGED tasks
  /\ events' = events + 1
  /\ UNCHANGED <<rooms, messages, failures, lastCall>>

\* The transport closes.  The socket leaves its rooms and the namespace, then
\* socket.on(DISCONNECT) runs up to `await RoomService.updateUserLastSeen`; a
\* socket whose connection handler has not registered the listener yet has none.
Disconnect(s) ==
  /\ sockets[s].status \in {"connecting", "active"}
  /\ LET u == sockets[s].user
         sk == [sockets EXCEPT ![s].status = "disconnected"]
         ad == [adapterRooms EXCEPT ![s] = {}]
         user == RegGet(connectedUsers, s)
         had == GetUserRooms(userRoomMemberships, u)
         left == UserLeftAll(s, had, ad, sk)
         t == [Task(events + 1, "disconnect", "updateLastSeen", s, u, user.room) EXCEPT
                 !.idx0 = had, !.notified = {left[i].room : i \in 1..Len(left)}]
     IN /\ adapterRooms' = ad
        /\ IF sockets[s].status = "connecting" \/ u = NoUser
           THEN /\ sockets' = sk
                /\ emits' = <<>>
                /\ done' = NoDone
                /\ UNCHANGED <<connectedUsers, userRoomMemberships, tasks, isOnline>>
           ELSE /\ sockets' = [sk EXCEPT ![s].handled = TRUE]
                /\ isOnline' = UpdateUserStatus(isOnline, u, FALSE)
                /\ emits' = left
                /\ userRoomMemberships' = CleanupUserMemberships(userRoomMemberships, u)
                /\ IF user.room # NoRoom
                   THEN /\ tasks' = tasks \cup {t}
                        /\ done' = NoDone
                        /\ UNCHANGED connectedUsers
                   ELSE /\ connectedUsers' = RegDelete(connectedUsers, s)
                        /\ done' = Done(t, TRUE, "")
                        /\ UNCHANGED tasks
  /\ events' = events + 1
  /\ UNCHANGED <<rooms, messages, failures, lastCall>>

\* `await RoomService.updateUserLastSeen` returns (it swallows its own
\* failures); connectedUsers.delete(socket.id)
DisconnectLastSeen(t) ==
  /\ t \in tasks /\ t.kind = "disconnect"
  /\ connectedUsers' = RegDelete(connectedUsers, t.sock)
  /\ tasks' = MarkStale(tasks \ {t}, t.sock)
  /\ emits' = <<>>
  /\ done' = Done(t, TRUE, "")
  /\ UNCHANGED <<rooms, messages, userRoomMemberships, adapterRooms, sockets, events,
                 failures, lastCall, isOnline>>

\* ------------------------------------------------------------------ POST /api/messages

\* the `@word` tokens clients write
Words == {Username(u) : u \in Users}

\* `while ((match = mentionRegex.exec(content)) !== null) extractedMentions.push(match[1])`:
\* the words after '@', in the order of the content
ExtractMentions(at) == SetToSeq(at)

\* `for (const mention of finalMentions) SocketService.sendToUser(mention, "mention", ...)`
RECURSIVE MentionAll(_, _, _, _)
MentionAll(q, reg, sk, r) ==
  IF q = <<>> THEN <<>>
  ELSE SendToUser("mention", reg, sk, Head(q), r) \o MentionAll(Tail(q), reg, sk, r)

\* POST /api/messages with roomName and content and without a mentions list, up
\* to `await message.save()` in MessageService.createMessage
HttpSendMessage(u, r, at) ==
  /\ InFlight < MaxInFlight
  /\ events' = events + 1
  /\ tasks' = tasks \cup
       {[Task(events + 1, "http_message", "messageSave", NoSock, u, r) EXCEPT !.at = at]}
  /\ emits' = <<>>
  /\ done' = NoDone
  /\ UNCHANGED <<rooms, messages, connectedUsers, userRoomMemberships, adapterRooms,
                 sockets, failures, lastCall, isOnline>>

\* `await message.save()` of createMessage returns to POST /api/messages
HttpMessageSave(t) ==
  /\ t \in tasks /\ t.kind = "http_message" /\ t.pc = "messageSave"
  /\ \E ok \in StoreOutcomes :
       /\ Fails(ok)
       /\ IF ~ok
          THEN /\ messages' = messages
               /\ done' = Done(t, FALSE, "StoreError")
               /\ tasks' = tasks \ {t}
          ELSE /\ messages' = Append(messages, Message(t.user, t.room))
               /\ tasks' = Replace(t, [t EXCEPT !.pc = "roomUpdate",
                                                !.msg = Len(messages) + 1])
               /\ done' = NoDone
  /\ emits' = <<>>
  /\ UNCHANGED <<rooms, connectedUsers, userRoomMemberships, adapterRooms, sockets,
                 events, lastCall, isOnline>>

\* `await Room.findOneAndUpdate` of createMessage returns: createMessage emits
\* 'newMessage' to the room, and the route notifies the mentions and answers 201
HttpRoomUpdate(t) ==
  /\ t \in tasks /\ t.kind = "http_message" /\ t.pc = "roomUpdate"
  /\ \E ok \in StoreOutcomes :
       /\ Fails(ok)
       /\ IF ~ok
          THEN /\ emits' = <<>>
               /\ done' = Done(t, FALSE, "StoreError")
          ELSE /\ emits' = <<SendToRoom("newMessage", NoSock, adapterRooms, sockets,
                                        t.room, t.msg)>>
                             \o MentionAll(ExtractMentions(t.at), connectedUsers, sockets,
                                           t.room)
               /\ done' = Done(t, TRUE, "")
  /\ tasks' = tasks \ {t}
  /\ UNCHANGED <<rooms, messages, connectedUsers, userRoomMemberships, adapterRooms,
                 sockets, events, lastCall, isOnline>>

\* ------------------------------------------------------------------ typing, reactions, edit, delete

\* socket.broadcast.emit(ev)
BroadcastOthers(ev, s, sk) == Emit(ev, s, "all", Live(sk) \ {s}, NoRoom, 0)

\* socket.on(TYPING): no await and no try/catch.  present is FALSE when the
\* client sent the event without a payload: `data.isTyping` then throws a
\* TypeError that nothing catches.  RoomService.updateUserLastSeen is not
\* awaited and swallows its own errors.
Typing(s, present, r, isTyping) ==
  /\ sockets[s].status = "active"
  /\ UNCHANGED failures
  /\ events' = events + 1
  /\ LET u == sockets[s].user
         t == Task(events + 1, "typing", "", s, u, r)
     IN IF u = NoUser THEN ReturnsAtOnce(s)
        ELSE /\ Handled(s)
             /\ IF ~present
                THEN /\ emits' = <<>>
                     /\ done' = [Done(t, FALSE, "TypeError") EXCEPT !.escaped = TRUE]
                ELSE /\ emits' = IF r # NoRoom
                                 THEN <<ToOthersInRoom("user_typing", s, adapterRooms,
                                                       sockets, r)>>
                                 ELSE <<BroadcastOthers("user_typing", s, sockets)>>
                     /\ done' = Done(t, TRUE, "")
             /\ UNCHANGED <<rooms, messages, connectedUsers, userRoomMemberships,
                            adapterRooms, tasks, lastCall, isOnline>>

\* The start of a handler that takes {messageId, ...}: `if (!socket.user)
\* return`, then inside try the payload is read (a TypeError without a
\* payload, caught by the handler's catch) and the first store call is awaited.
\* m is the message the id names, 0 when no message has the id.
MessageEvent(kind, pc, s, present, m, e) ==
  /\ sockets[s].status = "active"
  /\ UNCHANGED failures
  /\ InFlight < MaxInFlight
  /\ events' = events + 1
  /\ LET u == sockets[s].user
         t == [Task(events + 1, kind, pc, s, u, NoRoom) EXCEPT !.msg = m, !.emoji = e]
     IN IF u = NoUser THEN ReturnsAtOnce(s)
        ELSE /\ Handled(s)
             /\ IF ~present
                THEN /\ emits' = <<ToSelf("error", s, sockets, NoRoom)>>
                     /\ done' = Done(t, FALSE, "TypeError")
                     /\ tasks' = tasks
                ELSE /\ emits' = <<>>
                     /\ done' = NoDone
                     /\ tasks' = tasks \cup {t}
             /\ UNCHANGED <<rooms, messages, connectedUsers, userRoomMemberships,
                            adapterRooms, lastCall, isOnline>>

\* socket.on('add_reaction'), up to the first `await Message.findByIdAndUpdate`
\* ($pull) of MessageService.addReaction
AddReaction(s, present, m, e) == MessageEvent("add_reaction", "pull", s, present, m, e)

\* socket.on('edit_message'), up to `await Message.findOneAndUpdate` of editMessage
EditMessage(s, present, m) == MessageEvent("edit_message", "update", s, present, m, "")

\* socket.on('delete_message'), up to `await Message.findOneAndUpdate` of deleteMessage
DeleteMessage(s, present, m) == MessageEvent("delete_message", "update", s, present, m, "")

\* the catch of a message handler: socket.emit('error')
MessageFailed(t) ==
  /\ messages' = messages
  /\ emits' = <<ToSelf("error", t.sock, sockets, NoRoom)>>
  /\ done' = Done(t, FALSE, "StoreError")
  /\ tasks' = tasks \ {t}

\* io.to(message.room).emit(ev) when the message has a room, io.emit(ev) otherwise
ToMessageRoom(ev, t) ==
  IF messages[t.msg].room # NoRoom
  THEN SendToRoom(ev, t.sock, adapterRooms, sockets, messages[t.msg].room, t.msg)
  ELSE Broadcast(ev, t.sock, sockets, t.msg)

\* reactions without those of user u: $pull {reactions: {userId}}
Pull(reactions, u) == SelectSeq(reactions, LAMBDA x : x.userId # u)

Reaction(u, e) == [userId |-> u, emoji |-> e]

\* the $pull of addReaction returns
ReactionPull(t) ==
  /\ t \in tasks /\ t.kind = "add_reaction" /\ t.pc = "pull"
  /\ \E ok \in StoreOutcomes :
       /\ Fails(ok)
       /\ IF ~ok THEN MessageFailed(t)
          ELSE /\ messages' = IF t.msg = 0 THEN messages
                              ELSE [messages EXCEPT ![t.msg].reactions = Pull(@, t.user)]
               /\ tasks' = Replace(t, [t EXCEPT !.pc = "push"])
               /\ emits' = <<>>
               /\ done' = NoDone
  /\ UNCHANGED <<rooms, connectedUsers, userRoomMemberships, adapterRooms, sockets,
                 events, lastCall, isOnline>>

\* the $push of addReaction returns, and the handler emits message_reaction
\* when a message came back
ReactionPush(t) ==
  /\ t \in tasks /\ t.kind = "add_reaction" /\ t.pc = "push"
  /\ \E ok \in StoreOutcomes :
       /\ Fails(ok)
       /\ IF ~ok THEN MessageFailed(t)
          ELSE /\ messages' = IF t.msg = 0 THEN messages
                              ELSE [messages EXCEPT ![t.msg].reactions =
                                      Append(@, Reaction(t.user, t.emoji))]
               /\ tasks' = tasks \ {t}
               /\ emits' = IF t.msg = 0 THEN <<>> ELSE <<ToMessageRoom("message_reaction", t)>>
               /\ done' = Done(t, TRUE, "")
  /\ UNCHANGED <<rooms, connectedUsers, userRoomMemberships, adapterRooms, sockets,
                 events, lastCall, isOnline>>

\* data.newContent of edit_message
NewContent == "edited"

\* the content deleteMessage leaves
DeletedContent == "[Message deleted]"

\* Variant of OwnLiveMessage without the sender condition; C33 must fail with it.
LiveMessage(t) ==
  t.msg # 0 /\ ~messages[t.msg].isDeleted

\* Variant of OwnLiveMessage without the isDeleted condition; C34 must fail
\* with it.
OwnMessage(t) ==
  t.msg # 0 /\ messages[t.msg].sender = t.user

\* the filter {_id, 'sender.id': userId, isDeleted: false} of editMessage and
\* deleteMessage
OwnLiveMessage(t) ==
  t.msg # 0 /\ messages[t.msg].sender = t.user /\ ~messages[t.msg].isDeleted

\* findOneAndUpdate of editMessage returns, and the handler emits
\* message_edited when a message came back
EditUpdate(t) ==
  /\ t \in tasks /\ t.kind = "edit_message" /\ t.pc = "update"
  /\ \E ok \in StoreOutcomes :
       /\ Fails(ok)
       /\ IF ~ok THEN MessageFailed(t)
          ELSE /\ messages' = IF OwnLiveMessage(t)
                              THEN [messages EXCEPT ![t.msg].isEdited = TRUE,
                                                    ![t.msg].content = NewContent]
                              ELSE messages
               /\ tasks' = tasks \ {t}
               /\ emits' = IF OwnLiveMessage(t) THEN <<ToMessageRoom("message_edited", t)>>
                           ELSE <<>>
               /\ done' = Done(t, TRUE, "")
  /\ UNCHANGED <<rooms, connectedUsers, userRoomMemberships, adapterRooms, sockets,
                 events, lastCall, isOnline>>

\* findOneAndUpdate of deleteMessage returns, and the handler emits
\* message_deleted to the caller on success
DeleteUpdate(t) ==
  /\ t \in tasks /\ t.kind = "delete_message" /\ t.pc = "update"
  /\ \E ok \in StoreOutcomes :
       /\ Fails(ok)
       /\ IF ~ok THEN MessageFailed(t)
          ELSE /\ messages' = IF OwnLiveMessage(t)
                              THEN [messages EXCEPT ![t.msg].isDeleted = TRUE,
                                                    ![t.msg].content = DeletedContent]
                              ELSE messages
               /\ tasks' = tasks \ {t}
               /\ emits' = IF OwnLiveMessage(t)
                           THEN <<ToSelf("message_deleted", t.sock, sockets, NoRoom)>>
                           ELSE <<>>
               /\ done' = Done(t, TRUE, "")
  /\ UNCHANGED <<rooms, connectedUsers, userRoomMemberships, adapterRooms, sockets,
                 events, lastCall, isOnline>>

\* ------------------------------------------------------------------ RoomService.removeUserFromRoom and deleteRoom, called while connections are live

\* removeUserFromRoom: null without an active room, the admin-or-moderator
\* check, the target lookup, the other-admins check, then the splice
RemoveUserFromRoomPlan(doc, u, target) ==
  IF ~doc.exists \/ ~doc.isActive THEN Plan("null", "", "", u, 0, 0)
  ELSE LET i == FindIndex(doc.participants, u)
           j == FindIndex(doc.participants, target)
       IN IF i = 0 \/ doc.participants[i].role \notin {"admin", "moderator"}
          THEN Plan("throw", "Insufficient permissions to remove users", "", u, 0, 0)
          ELSE IF j = 0 THEN Plan("throw", "User not found in room", "", u, 0, 0)
          ELSE IF doc.participants[j].role = "admin" /\ doc.createdBy # u
          THEN Plan("throw", "Cannot remove other admins", "", u, 0, 0)
          ELSE Plan("save", "", "splice", target, j, doc.v)

\* RoomService.removeUserFromRoom(r, u, target) is called, up to `await Room.findOne`
CallRemoveUserFromRoom(u, target, r) ==
  /\ UNCHANGED failures
  /\ InFlight < MaxInFlight
  /\ events' = events + 1
  /\ tasks' = tasks \cup
       {[Task(events + 1, "kick", "findOne", NoSock, u, r) EXCEPT !.target = target]}
  /\ emits' = <<>>
  /\ done' = NoDone
  /\ UNCHANGED <<rooms, messages, connectedUsers, userRoomMemberships, adapterRooms,
                 sockets, lastCall, isOnline>>

\* RoomService.deleteRoom(r, u) is called, up to `await Room.findOne`
CallDeleteRoom(u, r) ==
  /\ UNCHANGED failures
  /\ InFlight < MaxInFlight
  /\ events' = events + 1
  /\ tasks' = tasks \cup {Task(events + 1, "delete_room", "findOne", NoSock, u, r)}
  /\ emits' = <<>>
  /\ done' = NoDone
  /\ UNCHANGED <<rooms, messages, connectedUsers, userRoomMemberships, adapterRooms,
                 sockets, lastCall, isOnline>>

\* `await Room.findOne` of removeUserFromRoom or deleteRoom returns: the method
\* returns null or false, throws, or goes on to `await room.save()`
RoomCallFindOne(t) ==
  /\ t \in tasks /\ t.kind \in {"kick", "delete_room"} /\ t.pc = "findOne"
  /\ \E ok \in StoreOutcomes :
       /\ Fails(ok)
       /\ LET p == IF t.kind = "kick"
                   THEN RemoveUserFromRoomPlan(rooms[t.room], t.user, t.target)
                   ELSE DeleteRoomPlan(rooms[t.room], t.user)
          IN IF ~ok THEN /\ tasks' = tasks \ {t}
                         /\ done' = Done(t, FALSE, "StoreError")
             ELSE IF p.k = "throw" THEN /\ tasks' = tasks \ {t}
                                        /\ done' = Done(t, FALSE, p.err)
             ELSE IF p.k = "null" THEN /\ tasks' = tasks \ {t}
                                       /\ done' = Done(t, TRUE, "not found")
             ELSE /\ tasks' = Replace(t, [t EXCEPT !.pc = "save", !.plan = p])
                  /\ done' = NoDone
  /\ emits' = <<>>
  /\ UNCHANGED <<rooms, messages, connectedUsers, userRoomMemberships, adapterRooms,
                 sockets, events, lastCall, isOnline>>

\* `await room.save()` of removeUserFromRoom or deleteRoom returns, and the
\* method returns the room or true; neither method touches SocketService
RoomCallSave(t) ==
  /\ t \in tasks /\ t.kind \in {"kick", "delete_room"} /\ t.pc = "save"
  /\ \E ok \in StoreOutcomes :
       /\ Fails(ok)
       /\ LET w == SaveRoom(rooms[t.room], t.plan) IN
          IF ~ok THEN /\ rooms' = rooms
                      /\ done' = Done(t, FALSE, "StoreError")
          ELSE /\ rooms' = [rooms EXCEPT ![t.room] = w.doc]
               /\ done' = Done(t, w.ok, w.err)
  /\ tasks' = tasks \ {t}
  /\ emits' = <<>>
  /\ UNCHANGED <<messages, connectedUsers, userRoomMemberships, adapterRooms,
                 sockets, events, lastCall, isOnline>>

\* ------------------------------------------------------------------ presence views

\* SocketService.getRoomStats(room): one element per session whose room is r;
\* users holds the users of these sessions
RoomStats(reg, r) ==
  [userCount |-> Cardinality({j \in 1..Len(reg) : reg[j].room = r}),
   users |-> GetUsersInRoom(reg, r)]

\* the users whose Membership Index entry holds r
IndexUsersOf(idx, r) == {u \in Users : r \in GetUserRooms(idx, u)}

\* the username getAllActiveRooms shows for user u: that of the user's first
\* session, 'Unknown' without one
ShownName(reg, u) ==
  IF FirstSessionOf(reg, u).sid = NoSock THEN "Unknown" ELSE Username(u)

\* the element of SocketService.getAllActiveRooms() for room r (there is none
\* when no entry holds r: userCount 0)
ActiveRoomStats(idx, reg, r) ==
  [userCount |-> Cardinality(IndexUsersOf(idx, r)),
   users |-> {ShownName(reg, u) : u \in IndexUsersOf(idx, r)}]

\* ------------------------------------------------------------------ specification

\* the credentials clients present
Creds == {"none", "invalid", "alice", "bob"}

\* One step of the server with sockets S, rooms R and HTTP callers H, while fewer
\* than L client events have arrived: a client event arrives or an awaited call
\* of a suspended handler returns.  Socket ids are handed out in order.
NextOf(S, R, H, L) ==
  \/ \E s \in S : \E cred \in Creds :
       /\ s = "s2" => sockets["s1"].status # "new"
       /\ Handshake(s, cred)
  \/ \E t \in tasks : ConnectGetUserRooms(t)
  \/ \E s \in S, r \in R \cup {NoRoom} : events < L /\ Join(s, r)
  \/ \E s \in S, r \in R : events < L /\ JoinRoom(s, r)
  \/ \E u \in H, r \in R : events < L /\ HttpJoinRoom(u, r)
  \/ \E t \in tasks : JoinRoomFindOne(t)
  \/ \E t \in tasks : CreateRoomFindOne(t)
  \/ \E t \in tasks : CreateRoomSave(t)
  \/ \E t \in tasks : JoinRoomSave(t)
  \/ \E t \in tasks : GetRoomMessages(t)
  \/ \E t \in tasks : HttpUpdateUserRoom(t)
  \/ \E s \in S, r \in R \cup {NoRoom} : events < L /\ LeaveRoom(s, r)
  \/ \E t \in tasks : LeaveRoomFindOne(t)
  \/ \E t \in tasks : LeaveRoomSave(t)
  \/ \E s \in S, r \in R \cup {NoRoom} : events < L /\ SendMessage(s, r)
  \/ \E t \in tasks : MessageSave(t)
  \/ \E t \in tasks : RoomUpdate(t)
  \/ \E s \in S : events < L /\ Disconnect(s)
  \/ \E t \in tasks : DisconnectLastSeen(t)

\* two connections, one room, MaxEvents client events
Next == NextOf(Sockets, {"vip"}, Users, MaxEvents)

Spec == InitOf({"vip"}) /\ [][Next]_vars

\* one connection, one room, MaxEventsOne client events
NextOne == NextOf({"s1"}, {"vip"}, {"alice", "bob"}, MaxEventsOne)

SpecOne == InitOf({"vip"}) /\ [][NextOne]_vars

\* Connections that only join, send and disconnect: two connections, one room,
\* MaxEvents client events
NextMsg ==
  \/ \E s \in Sockets : \E cred \in Creds :
       /\ s = "s2" => sockets["s1"].status # "new"
       /\ Handshake(s, cred)
  \/ \E t \in tasks : ConnectGetUserRooms(t)
  \/ \E s \in Sockets, r \in {"vip", NoRoom} : events < MaxEvents /\ Join(s, r)
  \/ \E t \in tasks : JoinRoomFindOne(t)
  \/ \E t \in tasks : CreateRoomFindOne(t)
  \/ \E t \in tasks : CreateRoomSave(t)
  \/ \E t \in tasks : JoinRoomSave(t)
  \/ \E t \in tasks : GetRoomMessages(t)
  \/ \E s \in Sockets, r \in {"vip", NoRoom} : events < MaxEvents /\ SendMessage(s, r)
  \/ \E t \in tasks : MessageSave(t)
  \/ \E t \in tasks : RoomUpdate(t)
  \/ \E s \in Sockets : events < MaxEvents /\ Disconnect(s)
  \/ \E t \in tasks : DisconnectLastSeen(t)

SpecMsg == InitOf({"vip"}) /\ [][NextMsg]_vars

\* the `@word` tokens of the contents sent
MentionSets == {{Username("bob")}, {Username("alice"), Username("bob")}}

\* Messages that mention users: two connections, one room, MaxEvents client
\* events, over the socket and over POST /api/messages
NextMention ==
  \/ \E s \in Sockets : \E cred \in Creds :
       /\ s = "s2" => sockets["s1"].status # "new"
       /\ Handshake(s, cred)
  \/ \E t \in tasks : ConnectGetUserRooms(t)
  \/ \E s \in Sockets, r \in {"vip", NoRoom} : events < MaxEvents /\ Join(s, r)
  \/ \E t \in tasks : JoinRoomFindOne(t)
  \/ \E t \in tasks : CreateRoomFindOne(t)
  \/ \E t \in tasks : CreateRoomSave(t)
  \/ \E t \in tasks : JoinRoomSave(t)
  \/ \E t \in tasks : GetRoomMessages(t)
  \/ \E s \in Sockets, at \in MentionSets :
       events < MaxEvents /\ SendMessageOf(s, "vip", at)
  \/ \E t \in tasks : MessageSave(t)
  \/ \E t \in tasks : RoomUpdate(t)
  \/ \E u \in {"carol"}, at \in MentionSets :
       events < MaxEvents /\ HttpSendMessage(u, "vip", at)
  \/ \E t \in tasks : HttpMessageSave(t)
  \/ \E t \in tasks : HttpRoomUpdate(t)

SpecMention == InitOf({"vip"}) /\ [][NextMention]_vars

\* two connections and POST /join-room, MaxEventsOne client events: the calls of
\* SocketService.sendToUser for a user with zero, one or two sessions.  The
\* sessions have no room, so the DISCONNECT handler completes without its
\* `await updateUserLastSeen`.
NextUser ==
  \/ \E s \in Sockets : \E cred \in Creds :
       /\ s = "s2" => sockets["s1"].status # "new"
       /\ Handshake(s, cred)
  \/ \E t \in tasks : ConnectGetUserRooms(t)
  \/ \E s \in Sockets : events < MaxEventsOne /\ Join(s, NoRoom)
  \/ \E u \in {"alice", "bob"} : events < MaxEventsOne /\ HttpJoinRoom(u, "vip")
  \/ \E t \in tasks : JoinRoomFindOne(t)
  \/ \E t \in tasks : CreateRoomFindOne(t)
  \/ \E t \in tasks : CreateRoomSave(t)
  \/ \E t \in tasks : JoinRoomSave(t)
  \/ \E t \in tasks : HttpUpdateUserRoom(t)
  \/ \E s \in Sockets : events < MaxEventsOne /\ Disconnect(s)

SpecUser == InitOf({"vip"}) /\ [][NextUser]_vars

\* one connection with join_room, and RoomService.removeUserFromRoom and
\* deleteRoom called by the room's admin while the connection is live
NextKick ==
  \/ \E cred \in Creds : Handshake("s1", cred)
  \/ \E t \in tasks : ConnectGetUserRooms(t)
  \/ events < MaxEvents /\ JoinRoom("s1", "vip")
  \/ \E t \in tasks : JoinRoomFindOne(t)
  \/ \E t \in tasks : CreateRoomFindOne(t)
  \/ \E t \in tasks : CreateRoomSave(t)
  \/ \E t \in tasks : JoinRoomSave(t)
  \/ \E t \in tasks : GetRoomMessages(t)
  \/ \E u \in {"alice", "bob"}, target \in {"alice", "bob"} :
       events < MaxEvents /\ CallRemoveUserFromRoom(u, target, "vip")
  \/ \E u \in {"alice", "bob"} : events < MaxEvents /\ CallDeleteRoom(u, "vip")
  \/ \E t \in tasks : RoomCallFindOne(t)
  \/ \E t \in tasks : RoomCallSave(t)

SpecKick == InitOf({"vip"}) /\ [][NextKick]_vars

\* one connection of alice with join, join_room and disconnect, MaxEventsOne
\* client events
NextDisc ==
  \/ Handshake("s1", "alice")
  \/ \E t \in tasks : ConnectGetUserRooms(t)
  \/ \E r \in {"vip", NoRoom} : events < MaxEventsOne /\ Join("s1", r)
  \/ events < MaxEventsOne /\ JoinRoom("s1", "vip")
  \/ \E t \in tasks : JoinRoomFindOne(t)
  \/ \E t \in tasks : CreateRoomFindOne(t)
  \/ \E t \in tasks : CreateRoomSave(t)
  \/ \E t \in tasks : JoinRoomSave(t)
  \/ \E t \in tasks : GetRoomMessages(t)
  \/ events < MaxEventsOne /\ Disconnect("s1")
  \/ \E t \in tasks : DisconnectLastSeen(t)

SpecDisc == InitOf({"vip"}) /\ [][NextDisc]_vars

\* two connections, the leave_room event and POST /leave-room, and the
\* send_message that follows a leave
NextLeave ==
  \/ \E s \in Sockets : \E cred \in {"alice", "bob"} :
       /\ s = "s2" => sockets["s1"].status # "new"
       /\ Handshake(s, cred)
  \/ \E t \in tasks : ConnectGetUserRooms(t)
  \/ \E s \in Sockets, r \in {"vip", NoRoom} : events < MaxEvents /\ LeaveRoom(s, r)
  \/ \E t \in tasks : LeaveRoomFindOne(t)
  \/ \E t \in tasks : LeaveRoomSave(t)
  \/ \E u \in {"alice", "bob"} : events < MaxEvents /\ HttpLeaveRoom(u, "vip")
  \/ \E t \in tasks : HttpLeaveFindOne(t)
  \/ \E t \in tasks : HttpLeaveSave(t)
  \/ \E s \in Sockets : events < MaxEvents /\ SendMessage(s, "vip")
  \/ \E t \in tasks : MessageSave(t)
  \/ \E t \in tasks : RoomUpdate(t)

\* SocketService.addUserToRoom(u, r) called on the index as it is; done keeps
\* the user's set of before the call
AddUserToRoomStep(u, r) ==
  /\ userRoomMemberships' = AddUserToRoom(userRoomMemberships, u, r)
  /\ done' = [NoDone EXCEPT !.kind = "addUserToRoom", !.user = u, !.room = r,
                            !.ok = TRUE,
                            !.idx0 = GetUserRooms(userRoomMemberships, u)]
  /\ UNCHANGED <<rooms, messages, connectedUsers, adapterRooms, sockets, tasks,
                 events, failures, emits, lastCall, isOnline>>

\* SocketService.removeUserFromRoom(u, r) called on the index as it is
RemoveUserFromRoomStep(u, r) ==
  /\ userRoomMemberships' = RemoveUserFromRoom(userRoomMemberships, u, r)
  /\ done' = [NoDone EXCEPT !.kind = "removeUserFromRoom", !.user = u, !.room = r,
                            !.ok = TRUE,
                            !.idx0 = GetUserRooms(userRoomMemberships, u)]
  /\ UNCHANGED <<rooms, messages, connectedUsers, adapterRooms, sockets, tasks,
                 events, failures, emits, lastCall, isOnline>>

\* the Room Membership Index under any sequence of subscriptions and
\* unsubscriptions of three users and two rooms
NextIndex ==
  \/ \E u \in Users, r \in RoomNames : AddUserToRoomStep(u, r)
  \/ \E u \in Users, r \in RoomNames : RemoveUserFromRoomStep(u, r)

SpecIndex == InitSeq /\ [][NextIndex]_vars

SpecLeave == InitOf({"vip"}) /\ [][NextLeave]_vars

\* one connection that joins, leaves, types and disconnects, beside
\* removeUserFromRoom and deleteRoom calls on the same room
NextMember ==
  \/ \E cred \in {"alice", "bob"} : Handshake("s1", cred)
  \/ \E t \in tasks : ConnectGetUserRooms(t)
  \/ events < MaxEvents /\ Join("s1", "vip")
  \/ events < MaxEvents /\ JoinRoom("s1", "vip")
  \/ \E t \in tasks : JoinRoomFindOne(t)
  \/ \E t \in tasks : CreateRoomFindOne(t)
  \/ \E t \in tasks : CreateRoomSave(t)
  \/ \E t \in tasks : JoinRoomSave(t)
  \/ \E t \in tasks : GetRoomMessages(t)
  \/ events < MaxEvents /\ LeaveRoom("s1", "vip")
  \/ \E t \in tasks : LeaveRoomFindOne(t)
  \/ \E t \in tasks : LeaveRoomSave(t)
  \/ events < MaxEvents /\ Typing("s1", TRUE, "vip", TRUE)
  \/ events < MaxEvents /\ Disconnect("s1")
  \/ \E t \in tasks : DisconnectLastSeen(t)
  \/ \E u \in {"alice", "bob"}, target \in {"alice", "bob"} :
       events < MaxEvents /\ CallRemoveUserFromRoom(u, target, "vip")
  \/ \E u \in {"alice", "bob"} : events < MaxEvents /\ CallDeleteRoom(u, "vip")
  \/ \E t \in tasks : RoomCallFindOne(t)
  \/ \E t \in tasks : RoomCallSave(t)

SpecMember == InitOf({"vip"}) /\ [][NextMember]_vars

\* the messages earlier runs left in the store
StoredMessages == {<<>>, <<Message("alice", "vip")>>, <<Message("bob", NoRoom)>>}

InitEdit ==
  /\ rooms \in [RoomNames -> {NoRoomDoc} \cup StoredRooms]
  /\ rooms["general"] = NoRoomDoc
  /\ messages \in StoredMessages
  /\ connectedUsers = <<>>
  /\ userRoomMemberships = EmptyIndex
  /\ adapterRooms = [s \in Sockets |-> {}]
  /\ sockets = [s \in Sockets |-> NewSocket]
  /\ tasks = {}
  /\ events = 0
  /\ failures = 0
  /\ emits = <<>>
  /\ done = NoDone
  /\ lastCall = NoCall
  /\ isOnline = [u \in Users |-> FALSE]

Emojis == {"+1", "heart"}

\* the message ids a client may name: the stored messages and an id no
\* message has
MessageIds == 0..Len(messages)

\* two connections and the typing, reaction, edit and delete events on stored messages
NextEdit ==
  \/ \E s \in Sockets : \E cred \in Creds :
       /\ s = "s2" => sockets["s1"].status # "new"
       /\ Handshake(s, cred)
  \/ \E t \in tasks : ConnectGetUserRooms(t)
  \/ \E s \in Sockets, present \in BOOLEAN, r \in {"vip", NoRoom}, isTyping \in BOOLEAN :
       events < MaxEvents /\ Typing(s, present, r, isTyping)
  \/ \E s \in Sockets, present \in BOOLEAN, m \in MessageIds, e \in Emojis :
       events < MaxEvents /\ AddReaction(s, present, m, e)
  \/ \E t \in tasks : ReactionPull(t)
  \/ \E t \in tasks : ReactionPush(t)
  \/ \E s \in Sockets, present \in BOOLEAN, m \in MessageIds :
       events < MaxEvents /\ EditMessage(s, present, m)
  \/ \E t \in tasks : EditUpdate(t)
  \/ \E s \in Sockets, present \in BOOLEAN, m \in MessageIds :
       events < MaxEvents /\ DeleteMessage(s, present, m)
  \/ \E t \in tasks : DeleteUpdate(t)

SpecEdit == InitEdit /\ [][NextEdit]_vars

\* the stored messages met by the edits and deletions of their author and of
\* another user
InitAuthor ==
  /\ InitEdit
  /\ rooms["vip"] \in {NoRoomDoc, NewRoom("alice", 1)}
  /\ messages # <<>>

\* alice on s1 and bob on s2, with the reaction, edit and delete events
NextAuthor ==
  \/ \E s \in Sockets : Handshake(s, IF s = "s1" THEN "alice" ELSE "bob")
  \/ \E t \in tasks : ConnectGetUserRooms(t)
  \/ \E s \in Sockets, m \in MessageIds :
       events < MaxEvents /\ AddReaction(s, TRUE, m, "+1")
  \/ \E t \in tasks : ReactionPull(t)
  \/ \E t \in tasks : ReactionPush(t)
  \/ \E s \in Sockets, m \in MessageIds :
       events < MaxEvents /\ EditMessage(s, TRUE, m)
  \/ \E t \in tasks : EditUpdate(t)
  \/ \E s \in Sockets, m \in MessageIds :
       events < MaxEvents /\ DeleteMessage(s, TRUE, m)
  \/ \E t \in tasks : DeleteUpdate(t)

SpecAuthor == InitAuthor /\ [][NextAuthor]_vars

\* RoomService calls of two users on one room, one at a time: creation, join
\* and the four role-guarded operations
RoleUsers == {"alice", "bob"}

Roles == {"admin", "moderator", "member"}

NextRole ==
  \/ \E u \in RoleUsers : SeqCreateRoom(u, 0)
  \/ \E u \in RoleUsers : SeqJoinRoom(u)
  \/ \E u \in RoleUsers, val \in BOOLEAN :
       SeqUpdateRoomSettings(u, "allowMentions", val)
  \/ \E u \in RoleUsers, target \in RoleUsers, role \in Roles :
       SeqChangeUserRole(u, target, role)
  \/ \E u \in RoleUsers, target \in RoleUsers : SeqRemoveUserFromRoom(u, target)
  \/ \E u \in RoleUsers : SeqDeleteRoom(u)

SpecRole == InitSeq /\ [][NextRole]_vars

NextSeq ==
  \/ \E u \in Users, cap \in 0..MaxCap : SeqCreateRoom(u, cap)
  \/ \E u \in Users : SeqJoinRoom(u)
  \/ \E u \in Users : SeqLeaveRoom(u)
  \/ \E u \in Users : SeqDeleteRoom(u)

SpecSeq == InitSeq /\ [][NextSeq]_vars

\* ------------------------------------------------------------------ properties

\* The user's entries in the persisted room
ActiveEntry(doc, u) ==
  \E i \in EntriesOf(doc.participants, u) : doc.participants[i].isActive

\* C1: in every reachable state every room has at most maxParticipants active
\* participants, whatever joinRoom calls ran and however they interleaved
\* between their findOne and their save.
C1_CapacityInvariant ==
  \A r \in RoomNames :
    rooms[r].exists => ActiveCount(rooms[r].participants) <= rooms[r].maxParticipants

\* C2: when a socket `join` (with a room) or `join_room` returns successfully,
\* the Membership Index of the user contains the room and the persisted room
\* has an active entry of the user.
C2_JoinEstablishesMembership ==
  (done.kind \in {"join", "join_room"} /\ done.ok /\ done.room # NoRoom) =>
    /\ done.room \in GetUserRooms(userRoomMemberships, done.user)
    /\ ActiveEntry(rooms[done.room], done.user)

\* C3: when `leave_room` of a room returns successfully, with or without an
\* explicit room argument, the user's entry in the persisted room is inactive
\* and getRoomStats of the room does not list the user.
C3_LeaveClearsPresence ==
  (done.kind = "leave_room" /\ done.ok /\ done.room # NoRoom) =>
    /\ ~ActiveEntry(rooms[done.room], done.user)
    /\ done.user \notin GetRoomStats(connectedUsers, done.room)

\* C4: after two successful joinRoom calls of the same user on the same room in
\* succession, the room has exactly one entry of the user and it is active.
C4_JoinIdempotent ==
  (lastCall.op = "joinRoom" /\ lastCall.streak >= 2) =>
    LET parts == rooms[SeqRoom].participants
        mine == EntriesOf(parts, lastCall.user)
    IN /\ Cardinality(mine) = 1
       /\ \A i \in mine : parts[i].isActive

\* a user joined an existing room twice in succession, and the room has
\* another participant too
C4_Witness ==
  /\ lastCall.op = "joinRoom"
  /\ lastCall.streak >= 2
  /\ lastCall.before.exists
  /\ Len(rooms[SeqRoom].participants) >= 2

\* the sockets an event of the last step was delivered to
Recipients(ev) == UNION {emits[i].to : i \in {j \in 1..Len(emits) : emits[j].ev = ev}}

\* C5: when a send_message with a room returns successfully, the message is
\* persisted with that room and receive_message went to exactly the live
\* connections of the users whose Membership Index entry held the room when
\* the event arrived.
C5_RoundTripDelivery ==
  (done.kind = "send_message" /\ done.ok /\ done.room # NoRoom) =>
    /\ done.msg \in 1..Len(messages)
    /\ messages[done.msg].room = done.room
    /\ Recipients("receive_message") =
         {s \in Live(sockets) : sockets[s].user \in done.idx0}

\* C6: when the disconnect handler of a connection has returned, the Session
\* Registry has no entry of the connection, the Membership Index of its user
\* holds no room if the user has no other live connection, and every room the
\* index entry held when the event arrived was sent user_left.
C6_DisconnectCleanup ==
  done.kind = "disconnect" =>
    /\ RegGet(connectedUsers, done.sock) = NoSession
    /\ (\A s \in Live(sockets) : sockets[s].user # done.user) =>
         GetUserRooms(userRoomMemberships, done.user) = {}
    /\ done.idx0 \subseteq done.notified

\* the events that carry a message of send_message
MessageEvents == {"receive_message", "newMessage"}

\* C7: every message event of a step carries a message that is in the store,
\* and a send_message that failed emitted one `error`, through the sender's
\* socket to the sender alone, and nothing else.
C7_PersistBeforeFanOut ==
  /\ \A i \in 1..Len(emits) :
       emits[i].ev \in MessageEvents =>
         /\ emits[i].msg \in 1..Len(messages)
         /\ done.kind = "send_message" /\ done.ok /\ done.msg = emits[i].msg
         /\ messages[emits[i].msg] = Message(done.user, done.room)
  /\ (done.kind = "send_message" /\ ~done.ok) =>
       /\ Len(emits) = 1
       /\ emits[1].ev = "error"
       /\ emits[1].src = done.sock
       /\ emits[1].dest = "self"
       /\ emits[1].to = {done.sock} \cap Live(sockets)

\* a send_message failed while the sender and another connection were live, and
\* the sender received the error
C7_Witness ==
  /\ done.kind = "send_message"
  /\ ~done.ok
  /\ Live(sockets) = Sockets
  /\ Recipients("error") = {done.sock}

\* C8: a `join` or `join_room` that ended in failure changed neither the
\* session's currentRoom, nor the user's index entry, nor the socket's
\* transport groups, and emitted no user_joined.
C8_FailedJoinNoSideEffect ==
  (done.kind \in {"join", "join_room"} /\ ~done.ok) => done.fx = {}

\* C9: a connection that presented no or an invalid credential is rejected: it
\* is never active, no handler runs for it, and it has no session, no
\* transport group and no index entry.
C9_BadCredentialRejected ==
  \A s \in Sockets :
    sockets[s].cred \in {"none", "invalid"} =>
      /\ sockets[s].status = "rejected"
      /\ ~sockets[s].handled
      /\ sockets[s].user = NoUser
      /\ RegGet(connectedUsers, s) = NoSession
      /\ adapterRooms[s] = {}
      /\ \A t \in tasks : t.sock # s
      /\ NoUser \notin DOMAIN userRoomMemberships

\* one connection was rejected for an invalid token while the other one is
\* active and has handled an event
C9_Witness ==
  \E s, s2 \in Sockets :
    /\ sockets[s].cred = "invalid"
    /\ sockets[s].status = "rejected"
    /\ sockets[s2].status = "active"
    /\ sockets[s2].handled

\* the room has maxParticipants active participants and none is of user u
FullWithout(doc, u) ==
  /\ doc.exists
  /\ ActiveCount(doc.participants) >= doc.maxParticipants
  /\ EntriesOf(doc.participants, u) = {}

\* C10 (as claimed): joinRoom on a room that has maxParticipants active
\* participants, by a user without an entry in it, fails with 'Room is full'
\* and leaves the participants as they were.
C10_RoomFullRejection ==
  (lastCall.op = "joinRoom" /\ FullWithout(lastCall.before, lastCall.user)) =>
    /\ ~lastCall.ok
    /\ lastCall.err = "Room is full"
    /\ rooms[SeqRoom].participants = lastCall.before.participants

\* C10 (amended): joinRoom on an active room that has maxParticipants active
\* participants, by a user without an entry in it, fails with 'Room is full';
\* on a soft-deleted one it fails with 'Room is not active'; either way the
\* participants are left as they were.
C10_RoomFullRejectionActive ==
  (lastCall.op = "joinRoom" /\ FullWithout(lastCall.before, lastCall.user)) =>
    /\ ~lastCall.ok
    /\ lastCall.err = IF lastCall.before.isActive THEN "Room is full"
                      ELSE "Room is not active"
    /\ rooms[SeqRoom].participants = lastCall.before.participants

\* a user without an entry was turned away from a full, active room
C10_Witness ==
  /\ lastCall.op = "joinRoom"
  /\ FullWithout(lastCall.before, lastCall.user)
  /\ lastCall.before.isActive
  /\ lastCall.err = "Room is full"

\* the users whose username is one of the words
Mentioned(at) == {u \in Users : Username(u) \in at}

\* C11: when a send_message whose content has `@word` tokens (and no mentions
\* list) returns successfully, every live connection of every mentioned user was
\* sent a notification addressed to that user, member of the room or not.
C11_MentionNotification ==
  (done.kind = "send_message" /\ done.ok /\ done.at # {}) =>
    \A s \in Live(sockets) :
      sockets[s].user \in Mentioned(done.at) =>
        \E i \in 1..Len(emits) : emits[i].dest = "user" /\ s \in emits[i].to

\* the live connections of user u
ConnectionsOf(u) == {s \in Live(sockets) : sockets[s].user = u}

\* C12: whenever no handler is in flight, a room is in a user's Membership
\* Index entry if and only if one of the user's live connections has joined it
\* and has not left it since.
C12_RoomSubscription ==
  tasks = {} =>
    \A u \in Users, r \in RoomNames :
      r \in GetUserRooms(userRoomMemberships, u) <=>
        \E s \in ConnectionsOf(u) : r \in sockets[s].joined


\* C13 (per-room FIFO): when a send_message of a connection for a room returns
\* and has fanned receive_message out, no send_message that the server took
\* earlier from the same connection for the same room is still waiting for its
\* own fan-out; every recipient therefore got the earlier message first.
C13_PerRoomFifo ==
  (done.kind = "send_message" /\ done.ok /\ done.room # NoRoom
     /\ Recipients("receive_message") # {}) =>
    ~\E t \in tasks :
        /\ t.kind = "send_message"
        /\ t.sock = done.sock
        /\ t.room = done.room
        /\ t.n < done.n

\* the live connections whose Session Registry entry belongs to user u
SessionsOf(u) == {s \in Live(sockets) : RegGet(connectedUsers, s).id = u}

\* C14 (sendToUser): the room_joined_api push of a POST /join-room that
\* succeeded for user u reached every live connection whose registered session
\* belongs to u and no other connection; with no such connection nothing was
\* pushed.
C14_SendToUserAll ==
  (done.kind = "http_join" /\ done.ok) =>
    /\ Recipients("room_joined_api") = SessionsOf(done.user)
    /\ \A i \in 1..Len(emits) : emits[i].to \subseteq SessionsOf(done.user)

\* C15 (participant uniqueness): every room holds at most one participant
\* entry per userId, also after joinRoom calls for one user have interleaved.
C15_ParticipantUniqueness ==
  \A r \in RoomNames : \A u \in Users :
    Cardinality(EntriesOf(rooms[r].participants, u)) <= 1

RoleGuarded == {"deleteRoom", "changeUserRole", "removeUserFromRoom", "updateRoomSettings"}

\* the call just made was carried out (it did not throw and found the room)
Performed == lastCall.ok /\ lastCall.err # "not found"

InboundEvents ==
  {"join", "send_message", "join_room", "leave_room", "typing", "add_reaction",
   "edit_message", "delete_message"}

\* C17 (error propagation): when the handler of an inbound event has failed,
\* no exception escaped it, it emitted `error` to the connection the event
\* came from, and that connection, unless the client closed it meanwhile, is
\* still active.
C17_ErrorPropagation ==
  (done.kind \in InboundEvents /\ ~done.ok) =>
    /\ ~done.escaped
    /\ \E i \in 1..Len(emits) :
         emits[i].ev = "error" /\ emits[i].dest = "self" /\ emits[i].src = done.sock
    /\ done.sock \in Live(sockets) => sockets[done.sock].status = "active"

\* the reactions of user u on message m
ReactionsOf(m, u) == SelectSeq(messages[m].reactions, LAMBDA x : x.userId = u)

\* C18 (reaction uniqueness): every message holds at most one reaction per
\* userId, and when an add_reaction has just completed on a message it is the
\* user's only reaction there and carries the emoji of that call.
C18_ReactionUniqueness ==
  /\ \A m \in 1..Len(messages) : \A u \in Users : Len(ReactionsOf(m, u)) <= 1
  /\ (done.kind = "add_reaction" /\ done.ok /\ done.msg # 0) =>
       ReactionsOf(done.msg, done.user) = <<Reaction(done.user, done.emoji)>>

\* C19 (Session Registry completeness): every accepted connection of an
\* authenticated user has a session in the registry, and every session in the
\* registry belongs to a live connection or to one whose disconnect is still
\* being processed.
C19_RegistryCompleteness ==
  /\ \A s \in Sockets :
       (sockets[s].status = "active" /\ sockets[s].user # NoUser) =>
         RegGet(connectedUsers, s) # NoSession
  /\ \A i \in 1..Len(connectedUsers) :
       \/ connectedUsers[i].sid \in Live(sockets)
       \/ \E t \in tasks : t.kind = "disconnect" /\ t.sock = connectedUsers[i].sid

\* the active rooms in which user u has a participant entry with isActive = true
ActiveRoomsOf(u) == {r \in RoomNames : rooms[r].exists /\ rooms[r].isActive
                                       /\ ActiveEntry(rooms[r], u)}

\* C20 (reconnect reconciliation): when the connection handler has completed
\* its subscription step, the user's Membership Index entry and the new
\* connection's transport groups both equal the set of active rooms in which
\* the user has an active participant entry.
C20_ReconnectReconciliation ==
  (done.kind = "connect" /\ done.ok /\ done.sock \in Live(sockets)) =>
    /\ GetUserRooms(userRoomMemberships, done.user) = ActiveRoomsOf(done.user)
    /\ adapterRooms[done.sock] = ActiveRoomsOf(done.user)

\* C21 (sequential capacity): when joinRoom, leaveRoom and the other
\* RoomService calls run one at a time, the room never has more active
\* participants than its maxParticipants; in particular a joinRoom that
\* re-activated an inactive entry found fewer than maxParticipants active.
C21_SequentialCapacity ==
  /\ rooms[SeqRoom].exists =>
       ActiveCount(rooms[SeqRoom].participants) <= rooms[SeqRoom].maxParticipants
  /\ (lastCall.op = "joinRoom" /\ lastCall.ok /\ lastCall.before.exists
        /\ FindIndex(lastCall.before.participants, lastCall.user) # 0
        /\ ~ActiveEntry(lastCall.before, lastCall.user)) =>
       ActiveCount(lastCall.before.participants) < lastCall.before.maxParticipants

\* C22 (no orphan subscriptions): whenever no handler is in flight, every
\* user whose Membership Index entry holds a room has a live connection.
C22_NoOrphanSubscriptions ==
  tasks = {} =>
    \A u \in Users :
      GetUserRooms(userRoomMemberships, u) # {} => ConnectionsOf(u) # {}

\* the live view no longer has user u in room r
OutOfRoom(u, r) ==
  /\ r \notin GetUserRooms(userRoomMemberships, u)
  /\ \A s \in ConnectionsOf(u) : r \notin adapterRooms[s]

\* the step emitted something to room r
EmittedToRoom(r) ==
  \E i \in 1..Len(emits) : emits[i].dest = "room" /\ emits[i].room = r

\* C23 (lifecycle mutations update the live view): when removeUserFromRoom
\* has removed a user, or deleteRoom has deleted the room, the removed user
\* (every user, for a delete) is out of the room in the Membership Index and
\* in the transport group, and a presence event went to the room.
C23_LifecycleUpdatesLiveView ==
  (done.kind \in {"kick", "delete_room"} /\ done.ok /\ done.err = "") =>
    /\ \A u \in Users : (done.kind = "delete_room" \/ u = done.target) =>
         OutOfRoom(u, done.room)
    /\ EmittedToRoom(done.room)

\* the event a message handler emits on success
ResultEvent(kind) ==
  CASE kind = "add_reaction" -> "message_reaction"
    [] kind = "edit_message" -> "message_edited"
    [] kind = "delete_message" -> "message_deleted"
    [] OTHER -> ""

\* the connections a change of message m is to reach: the transport group of
\* its room, every live connection when it has no room
AudienceOf(m) ==
  IF messages[m].room # NoRoom
  THEN InRoom(adapterRooms, sockets, messages[m].room)
  ELSE Live(sockets)

\* C24 (message change fan-out): when add_reaction, edit_message or
\* delete_message has succeeded on a message, its event went to every
\* connection in the transport group of the message's room, or to every live
\* connection when the message has no room.
C24_MessageChangeFanOut ==
  (done.kind \in {"add_reaction", "edit_message", "delete_message"}
     /\ done.ok /\ done.msg # 0 /\ emits # <<>>) =>
    AudienceOf(done.msg) \subseteq Recipients(ResultEvent(done.kind))

\* the step runs the DISCONNECT handler of socket s up to its await or its end
DisconnectProcessed(s) ==
  /\ sockets[s].status = "active"
  /\ sockets[s].user # NoUser
  /\ sockets'[s].status = "disconnected"

\* what the step that processes the disconnect of s does, in the order the
\* handler does it: user_left goes to every room the user's Membership Index
\* entry holds before the step, the entry is empty after it, and the session
\* of s is dropped in the step or is still there for the handler to drop
DisconnectInOrder(s) ==
  LET u == sockets[s].user IN
  /\ \A r \in GetUserRooms(userRoomMemberships, u) :
       \E i \in 1..Len(emits') :
         emits'[i].ev = "user_left" /\ emits'[i].room = r /\ emits'[i].src = s
  /\ GetUserRooms(userRoomMemberships', u) = {}
  /\ \/ RegGet(connectedUsers', s) = NoSession
     \/ /\ RegGet(connectedUsers', s) = RegGet(connectedUsers, s)
        /\ \E t \in tasks' : t.kind = "disconnect" /\ t.sock = s

\* C25 (disconnect ordering): the DISCONNECT handler notifies every room of
\* the user's Membership Index entry before it clears the entry, clears the
\* entry before it drops the session of the connection, and has dropped the
\* session whenever it returns.
C25_DisconnectOrdering ==
  /\ [][\A s \in Sockets : DisconnectProcessed(s) => DisconnectInOrder(s)]_vars
  /\ [](\A t \in tasks : t.kind = "disconnect" =>
          RegGet(connectedUsers, t.sock) # NoSession)
  /\ [](done.kind = "disconnect" => RegGet(connectedUsers, done.sock) = NoSession)

\* a disconnect handler that notified a room of the user's entry and waited
\* for updateUserLastSeen has returned
C25_Witness ==
  /\ done.kind = "disconnect"
  /\ done.room # NoRoom
  /\ done.idx0 # {}
  /\ done.notified = done.idx0
  /\ RegGet(connectedUsers, done.sock) = NoSession

\* C26 (only participants send): a send_message for a room that was persisted
\* and fanned out came from a user with an active participant entry in the
\* room, and the room is active.
C26_OnlyParticipantsSend ==
  (done.kind = "send_message" /\ done.ok /\ done.room # NoRoom) =>
    /\ rooms[done.room].exists
    /\ rooms[done.room].isActive
    /\ ActiveEntry(rooms[done.room], done.user)

\* C27 (leave ends delivery): when a leave_room handler or POST /leave-room
\* has completed a leave of a room for a user, no live connection of that user
\* is in the room's transport group.
C27_LeaveEndsDelivery ==
  (done.kind \in {"leave_room", "http_leave"} /\ done.ok /\ done.room # NoRoom) =>
    \A s \in ConnectionsOf(done.user) : done.room \notin adapterRooms[s]

\* C28 (presence views agree with the Membership Index): whenever no handler
\* is in flight, getRoomStats of a room reports exactly the users whose
\* Membership Index entry holds the room, and getAllActiveRooms reports the
\* same userCount and the same users for it.
C28_PresenceViewsAgree ==
  tasks = {} =>
    \A r \in RoomNames :
      LET stats == RoomStats(connectedUsers, r)
          active == ActiveRoomStats(userRoomMemberships, connectedUsers, r)
      IN /\ stats.users = IndexUsersOf(userRoomMemberships, r)
         /\ stats.userCount = active.userCount
         /\ {Username(u) : u \in stats.users} = active.users


\* C29: disconnect cleanup always runs.  With no handler in flight, every
\* connection of an authenticated user that has disconnected has had its
\* disconnect handler run: the handler has acted on the socket, the socket has
\* no Session Registry entry, and a user left without any connection is marked
\* offline and has no Room Membership Index entry, also when the transport
\* closed while io.on(CONNECTION) was still awaiting RoomService.getUserRooms.
C29_DisconnectCleanupRuns ==
  tasks = {} =>
    \A s \in Sockets :
      (sockets[s].status = "disconnected" /\ sockets[s].user # NoUser) =>
        /\ sockets[s].handled
        /\ RegGet(connectedUsers, s).sid = NoSock
        /\ ConnectionsOf(sockets[s].user) = {} =>
             /\ ~isOnline[sockets[s].user]
             /\ GetUserRooms(userRoomMemberships, sockets[s].user) = {}


\* C30: persisted online status matches liveness.  With no handler in flight, a
\* user whose persisted isOnline flag is false has no live authenticated
\* connection; in particular the disconnect of one of several connections of a
\* user leaves the user marked online.
C30_OnlineMatchesLiveness ==
  tasks = {} => \A u \in Users : ~isOnline[u] => ConnectionsOf(u) = {}


C32_ConcurrentFirstJoin ==
  done.kind \in JoinKinds =>
    done.err \notin {"Room with this name already exists", "DuplicateKey"}


\* C33: author-only content mutation.  Every step in which an edit_message or
\* delete_message handler returns for a message whose sender is not the caller
\* leaves the Message collection as it was and emits neither message_edited
\* nor message_deleted.
C33_AuthorOnlyMutation ==
  [][\A t \in tasks :
       (/\ t.kind \in {"edit_message", "delete_message"}
        /\ t \notin tasks'
        /\ t.msg # 0
        /\ messages[t.msg].sender # t.user) =>
         /\ messages' = messages
         /\ \A i \in 1..Len(emits') :
              emits'[i].ev \notin {"message_edited", "message_deleted"}]_vars

\* an edit or delete attempt of a user who is not the sender has returned, the
\* store call having succeeded, and the message is as it was stored
C33_Witness ==
  /\ done.kind \in {"edit_message", "delete_message"}
  /\ done.ok
  /\ done.msg # 0
  /\ messages[done.msg].sender # done.user
  /\ messages[done.msg].content = "text"
  /\ ~messages[done.msg].isEdited
  /\ ~messages[done.msg].isDeleted
  /\ emits = <<>>


\* C34: soft delete is permanent.  A deleted message always carries the
\* placeholder content, and no step of an edit_message, delete_message or
\* add_reaction handler of any user makes a deleted message undeleted or
\* changes its content.
C34_SoftDeletePermanent ==
  /\ [](\A m \in 1..Len(messages) :
          messages[m].isDeleted => messages[m].content = DeletedContent)
  /\ [][\A m \in 1..Len(messages) :
          messages[m].isDeleted =>
            /\ m <= Len(messages')
            /\ messages'[m].isDeleted
            /\ messages'[m].content = DeletedContent]_vars

\* the sender's edit_message of a message that had been deleted has returned
C34_Witness ==
  /\ done.kind = "edit_message"
  /\ done.ok
  /\ done.msg # 0
  /\ messages[done.msg].sender = done.user
  /\ messages[done.msg].isDeleted
  /\ messages[done.msg].content = DeletedContent


\* C35: a leaveRoom call on a room that is not stored, or by a user without a
\* participant entry in the room, raises no error, reports "not found" and
\* leaves the stored room as it was.
C35_LeaveAbsentIsNoOp ==
  (/\ lastCall.op = "leaveRoom"
   /\ \/ ~lastCall.before.exists
      \/ FindIndex(lastCall.before.participants, lastCall.user) = 0) =>
    /\ lastCall.ok
    /\ lastCall.err = "not found"
    /\ rooms[SeqRoom] = lastCall.before


\* C36: on a `join` with a room, user_joined is not sent before the room
\* history has been loaded, and a join that has notified the room with
\* user_joined ends with the `joined` confirmation to the joiner.
C36_HistoryBeforeJoined ==
  /\ \A t \in tasks :
       (t.kind = "join" /\ t.pc = "getRoomMessages") => "user_joined" \notin t.fx
  /\ (done.kind = "join" /\ done.room # NoRoom /\ "user_joined" \in done.fx) =>
       /\ done.ok
       /\ \E i \in 1..Len(emits) : emits[i].ev = "joined" /\ emits[i].to = {done.sock}


HasEntry(doc, u) == FindIndex(doc.participants, u) # 0

\* C37: membership state machine.  A participant entry of user U in room R is
\* still there after every step, except a step in which a removeUserFromRoom
\* call that targets U in R returns successfully or after which R is deleted;
\* join, join_room, leave_room, typing and disconnect never remove an entry.
C37_EntryKept ==
  [][\A r \in RoomNames, u \in Users :
       HasEntry(rooms[r], u) =>
         \/ HasEntry(rooms'[r], u)
         \/ done'.kind = "kick" /\ done'.ok /\ done'.room = r /\ done'.target = u
         \/ ~rooms'[r].isActive]_vars

\* a user who joined and left still has the entry, now inactive
C37_Witness ==
  /\ done.kind = "leave_room" /\ done.ok /\ done.room = "vip"
  /\ done.user = "bob"
  /\ HasEntry(rooms["vip"], "bob")
  /\ ~ActiveEntry(rooms["vip"], "bob")


\* C38: when a `typing` handler has returned, user_typing has been emitted
\* once, to the live connections in the named room's transport group without
\* the sender, or to all live connections without the sender when the event
\* names no room.
C38_TypingFanOut ==
  done.kind = "typing" =>
    /\ Len(emits) = 1
    /\ emits[1].ev = "user_typing"
    /\ emits[1].to =
         IF done.room # NoRoom
         THEN InRoom(adapterRooms, sockets, done.room) \ {done.sock}
         ELSE Live(sockets) \ {done.sock}


\* C39: a joinRoom call on a stored room with isActive = false fails with
\* 'Room is not active', whether or not the caller has a participant entry,
\* and leaves the stored room as it was.
C39_InactiveRoomRejected ==
  (lastCall.op = "joinRoom" /\ lastCall.before.exists /\ ~lastCall.before.isActive) =>
    /\ ~lastCall.ok
    /\ lastCall.err = "Room is not active"
    /\ rooms[SeqRoom] = lastCall.before

\* a participant of a soft-deleted room has called joinRoom and was rejected
C39_Witness ==
  /\ lastCall.op = "joinRoom"
  /\ lastCall.before.exists /\ ~lastCall.before.isActive
  /\ HasEntry(lastCall.before, lastCall.user)
  /\ ~lastCall.ok
  /\ rooms[SeqRoom] = lastCall.before


\* C40: Membership Index idempotence.  Subscribing a user to a room that is
\* already in the user's set leaves the whole index as it was, so that
\* subscribing twice equals subscribing once; unsubscribing a user from a room
\* that is not in the user's set leaves the whole index as it was: no entry is
\* created and no room is removed.
C40_IndexIdempotence ==
  [][/\ (done'.kind = "addUserToRoom"
           /\ done'.room \in GetUserRooms(userRoomMemberships, done'.user)) =>
          userRoomMemberships' = userRoomMemberships
     /\ done'.kind = "addUserToRoom" =>
          /\ done'.room \in GetUserRooms(userRoomMemberships', done'.user)
          /\ AddUserToRoom(userRoomMemberships', done'.user, done'.room)
               = userRoomMemberships'
     /\ (done'.kind = "removeUserFromRoom"
           /\ done'.room \notin GetUserRooms(userRoomMemberships, done'.user)) =>
          userRoomMemberships' = userRoomMemberships]_vars

\* a user without an entry has been unsubscribed from a room while another
\* user has an entry, and the index still has no entry for the first
C40_Witness ==
  /\ done.kind = "removeUserFromRoom"
  /\ done.idx0 = {}
  /\ done.user \notin DOMAIN userRoomMemberships
  /\ DOMAIN userRoomMemberships # {}

====
